---- MODULE Spec2Model ----
(***************************************************************************)
(* Model of the Mir consensus adapter's StateManager                       *)
(* (chain/consensus/mir/state_manager.go, first listing in the file) and   *)
(* of the block creation it drives (chain/consensus/mir/consensus.go).     *)
(*                                                                         *)
(* The StateManager's methods run synchronously on the SMR engine's task,  *)
(* so every callback (ApplyTXs, NewEpoch, Snapshot, Checkpoint,            *)
(* RestoreState) is one atomic action.  The engine and the host chain are  *)
(* external: the order of the callbacks, their arguments and the outcome   *)
(* of every host call are inputs drawn from small sets.                    *)
(*                                                                         *)
(* Go maps are reference values: the membership table maps an epoch to a   *)
(* reference, and `heap` maps a reference to the map it denotes.           *)
(***************************************************************************)
EXTENDS Integers, Sequences, FiniteSets, TLC

\* ---------------------------------------------------------------- bounds
ConfigOffset == 1
SegmentLength == 1
MaxEpoch == 2
MaxHeight == 3
MaxVotes == 3
MaxBatch == 1

Nil == "nil"

Range(f) == {f[x] : x \in DOMAIN f}

\* ------------------------------------------------------------ validators
TransportType == "TransportType"
ReconfigurationType == "ReconfigurationType"

GoodAddr(i) == <<"ma", i>>
BadAddr == <<"notma">>

\* multiaddr.NewMultiaddr succeeds
ValidMultiaddr(a) == a[1] = "ma"

Validator(i) == [Addr |-> i, NetAddr |-> GoodAddr(i)]

\* Validator.ID: the string form of the address
ValidatorID(v) == ToString(v.Addr)

\* Validator.Bytes: the CBOR encoding of the validator
ValidatorBytes(v) == <<"cbor", v.Addr, v.NetAddr>>

VS(n) == [i \in 1..n |-> Validator(i)]
VS1 == VS(1)
VS2 == VS(2)
VS4 == VS(4)
VS5 == VS(5)
VS7 == VS(7)
\* the validators of VS4 listed in another order
VS4r == <<Validator(2), Validator(1), Validator(3), Validator(4)>>
\* a set whose second validator has a network address that is no multiaddr
VSBad == <<Validator(1), [Addr |-> 2, NetAddr |-> BadAddr]>>

InitialSets == {VS1, VS2, VS4, VS7}
ValSetPool == {VS5, VSBad}
Senders == {"1", "2"}

\* ValidatorSet.Hash: the hash of the concatenated encodings, in list order
Hash(set) == <<"cidv0", [i \in DOMAIN set |-> ValidatorBytes(set[i])]>>

\* ValidatorSet.MarshalCBOR / UnmarshalCBOR
MarshalCBOR(set) == <<"valset", set>>
JunkBytes == <<"junk">>
IsValSetCBOR(b) == b[1] = "valset"
UnmarshalCBOR(b) == b[2]

RECURSIVE membershipOf(_, _, _)
membershipOf(validators, i, acc) ==
    IF i > Len(validators) THEN acc
    ELSE LET v == validators[i]
             id == ValidatorID(v)
         IN membershipOf(validators, i + 1,
               [x \in (DOMAIN acc) \cup {id} |-> IF x = id THEN v.NetAddr ELSE acc[x]])

\* validatorsMembership: ok is FALSE for the error return
validatorsMembership(validators) ==
    IF \E i \in DOMAIN validators : ~ValidMultiaddr(validators[i].NetAddr)
    THEN [ok |-> FALSE, mbs |-> <<>>]
    ELSE [ok |-> TRUE, mbs |-> membershipOf(validators, 1, <<>>)]

\* Go integer division truncates toward zero
GoDiv(a, b) == IF a >= 0 THEN a \div b ELSE -((-a) \div b)

maxFaulty(n) == GoDiv(n - 1, 3)

weakQuorumStrong(n) == 2 * maxFaulty(n) + 1
weakQuorum(n) == maxFaulty(n) + 1

\* ------------------------------------------------------------ checkpoints
CheckpointBytes(ch) == <<"ckpt", ch>>
IsCheckpointBytes(b) == b[1] = "ckpt"
CheckpointFromBytes(b) == b[2]
CheckpointCid(ch) == <<"ckptcid", ch>>

\* a block's CID is the hash of its header
BlockCid(b) == <<"blkcid", b>>

SystemActorAddr == "f00"

\* a nil VRFProof is the empty byte string
NoProof == <<>>
NoCid == <<"nocid">>

GenesisBlock ==
    [Miner |-> SystemActorAddr, Parents |-> <<>>,
     Ticket |-> [VRFProof |-> NoProof],
     ElectionProof |-> [WinCount |-> 0, VRFProof |-> NoProof],
     Height |-> 0, Timestamp |-> 0, Messages |-> <<>>]

\* ------------------------------------------------------------------ state
VARIABLES
    currentEpoch,          \* sm.currentEpoch
    memberships,           \* sm.memberships: epoch -> reference of a membership map
    heap,                  \* reference -> membership map (node id -> address)
    reconfigurationVotes,  \* sm.reconfigurationVotes: epoch -> (hash -> count)
    prevCheckpoint,        \* sm.prevCheckpoint: [Height, Cid]
    NextCheckpoint,        \* the capacity-1 channel, as a sequence
    chain,                 \* the host chain: chain[h+1] is the block at height h
    ds,                    \* the metadata datastore
    snapshot,              \* bytes returned by the last Snapshot, awaiting agreement
    startCheckpoint,       \* the checkpoint NewStateManager started from
    blocked,               \* the engine's task is stuck in a channel send
    owed,                  \* checkpoints pushed, minus those embedded or drained
    voted,                 \* <<epoch, sender>> pairs counted in the current epoch
    pool,                  \* the request pool: <<client, nonce>> pairs in flight
    last,                  \* the last callback and whether it returned without error
    startup,               \* waitForMembershipInfo: "waiting", "started", "aborted", "timeout"
    source,                \* what the membership source returns: mirmembership.Info
    lastValidatorSet,      \* Serve's lastValidatorSet, m.initialValidatorSet before Serve
    configRequests,        \* Serve's configRequests: the pending configuration requests
    NextConfigurationNumber, \* the stored number of the next configuration request
    observed,              \* membership changes Serve has seen at its ticks
    serve,                 \* where Serve is: "new", "loop", "pull", "send", "stop", "done"
    exit,                  \* why Serve left its loop, Nil while it has not
    ctxDone,               \* the context given to Serve is cancelled
    mirCtxDone,            \* m.mirCancel has been called
    mirErrChan,            \* m.mirErrChan, capacity 1, as a sequence
    mirRun,                \* the goroutine of mirNode.Run: "idle", "running", "exited"
    stopped,               \* m.stopped
    interceptor,           \* m.interceptor != nil
    calls,                 \* how often the components were started and stopped
    unanswered,            \* reply channels received and not answered
    requests,              \* the batch built for the reply channel Serve holds
    handed                 \* <<client, nonce>> of the transport requests sent to the engine

smVars == <<currentEpoch, memberships, heap, reconfigurationVotes, prevCheckpoint, NextCheckpoint>>
hostVars == <<chain, ds>>
reconfVars == <<lastValidatorSet, configRequests, NextConfigurationNumber, observed>>
lifeVars == <<serve, exit, ctxDone, mirCtxDone, mirErrChan, mirRun, stopped, interceptor, calls>>
pullVars == <<unanswered, requests, handed>>
mgrVars == <<startup, source, reconfVars, lifeVars, pullVars>>
smAllVars == <<smVars, hostVars, snapshot, startCheckpoint, blocked, owed, voted>>
vars == <<currentEpoch, memberships, heap, reconfigurationVotes, prevCheckpoint, NextCheckpoint,
          chain, ds, snapshot, startCheckpoint, blocked, owed, voted, pool, last,
          startup, source, lastValidatorSet, configRequests, NextConfigurationNumber, observed,
          serve, exit, ctxDone, mirCtxDone, mirErrChan, mirRun, stopped, interceptor, calls,
          unanswered, requests, handed>>

\* ---------------------------------------------------------------- helpers
\* the smallest reference no table entry uses: a freshly allocated map
NewRef(mem) == CHOOSE r \in 1..(Cardinality(DOMAIN mem) + 1) :
                  /\ r \notin Range(mem)
                  /\ \A q \in 1..(r - 1) : q \in Range(mem)

\* len(sm.memberships[e]); a missing entry is the nil map
MembershipAt(mem, hp, e) == IF e \in DOMAIN mem THEN hp[mem[e]] ELSE <<>>
MembershipLen(mem, hp, e) == Cardinality(DOMAIN MembershipAt(mem, hp, e))

\* the heap restricted to the references the table still holds
LiveHeap(mem, hp) == [r \in Range(mem) |-> hp[r]]

VoteCount(votes, e, h) ==
    IF e \in DOMAIN votes /\ h \in DOMAIN votes[e] THEN votes[e][h] ELSE 0

RECURSIVE SumOver(_, _)
SumOver(f, S) == IF S = {} THEN 0
                 ELSE LET x == CHOOSE y \in S : TRUE IN f[x] + SumOver(f, S \ {x})
RECURSIVE TotalVotesOver(_, _)
TotalVotesOver(votes, E) ==
    IF E = {} THEN 0
    ELSE LET e == CHOOSE y \in E : TRUE
         IN SumOver(votes[e], DOMAIN votes[e]) + TotalVotesOver(votes, E \ {e})
TotalVotes(votes) == TotalVotesOver(votes, DOMAIN votes)

HeadHeight == Len(chain) - 1
ChainHead == chain[Len(chain)]
HasBlockAt(h) == h >= 0 /\ h + 1 <= Len(chain)
BlockCidAt(h) == IF HasBlockAt(h) THEN BlockCid(chain[h + 1]) ELSE NoCid

\* ---------------------------------------------------------- construction
\* firstEpochCheckpoint: the stored latest checkpoint, or the genesis one
firstEpochCheckpoint(store, genesis) ==
    IF store.latest = <<>>
    THEN [Height |-> 1,
          Parent |-> [Height |-> 0, Cid |-> BlockCid(genesis)],
          BlockCids |-> <<>>]
    ELSE CheckpointFromBytes(store.latest[1])

\* an absent key is the empty sequence, a stored value a one-element sequence;
\* the two indexes are the sets of the <<key, value>> pairs written
EmptyStore == [latest |-> <<>>, latestPb |-> <<>>, byHeight |-> {}, byCid |-> {}]

InitLast == [op |-> "init", ok |-> TRUE]

\* mirmembership.Info (the genesis epoch is left out)
Info(set, min) == [ValidatorSet |-> set, MinValidators |-> min]

NoCalls == [netStart |-> 0, stop |-> 0, mirCancel |-> 0, interceptorStop |-> 0,
            netStop |-> 0, mirNodeStop |-> 0]

\* NewStateManager: every one of the ConfigOffset+2 first epochs is given
\* the same map (one reference).  NewManager: the transport is started, the
\* engine's context and error channel are made, nothing runs yet
Constructed(mbs, set, info, phase, recorder) ==
    /\ currentEpoch = 0
    /\ memberships = [e \in 0..(ConfigOffset + 1) |-> 1]
    /\ heap = (1 :> mbs)
    /\ reconfigurationVotes = <<>>
    /\ NextCheckpoint = <<>>
    /\ chain = <<GenesisBlock>>
    /\ ds = EmptyStore
    /\ startCheckpoint = firstEpochCheckpoint(EmptyStore, GenesisBlock)
    /\ prevCheckpoint = [Height |-> firstEpochCheckpoint(EmptyStore, GenesisBlock).Height,
                         Cid |-> CheckpointCid(firstEpochCheckpoint(EmptyStore, GenesisBlock))]
    /\ snapshot = <<>>
    /\ blocked = FALSE
    /\ owed = 0
    /\ voted = {}
    /\ pool = {}
    /\ last = InitLast
    /\ startup = phase
    /\ source = info
    /\ lastValidatorSet = set
    /\ configRequests = <<>>
    /\ NextConfigurationNumber = 0
    /\ observed = 0
    /\ serve = "new"
    /\ exit = Nil
    /\ ctxDone = FALSE
    /\ mirCtxDone = FALSE
    /\ mirErrChan = <<>>
    /\ mirRun = "idle"
    /\ stopped = FALSE
    /\ interceptor = recorder
    /\ calls = [NoCalls EXCEPT !.netStart = IF phase = "started" THEN 1 ELSE 0]
    /\ unanswered = 0
    /\ requests = <<>>
    /\ handed = {}

Init ==
    \E set \in InitialSets :
        Constructed(validatorsMembership(set).mbs, set, Info(set, 1), "started", FALSE)

\* ------------------------------------------------------- reconfiguration
\* sm.memberships[e] = content, content being a freshly built map
WriteSlot(mem, hp, e, content) ==
    LET r == NewRef(mem)
        mem2 == [x \in (DOMAIN mem) \cup {e} |-> IF x = e THEN r ELSE mem[x]]
    IN [mem |-> mem2,
        heap |-> [q \in Range(mem2) |-> IF q = r THEN content ELSE hp[q]]]

PendingSlot(cur) == cur + ConfigOffset + 1

\* a variant that overwrites the map the pending slot refers to in place
UpdateNextMembershipInPlace(st, valSet) ==
    LET mbs == validatorsMembership(valSet)
        e == st.cur + ConfigOffset + 1
    IN IF ~mbs.ok THEN [st EXCEPT !.err = "membership"]
       ELSE IF e \in DOMAIN st.mem
            THEN [st EXCEPT !.heap = [q \in DOMAIN st.heap |->
                                        IF q = st.mem[e] THEN mbs.mbs ELSE st.heap[q]]]
            ELSE LET w == WriteSlot(st.mem, st.heap, e, mbs.mbs)
                 IN [st EXCEPT !.mem = w.mem, !.heap = w.heap]
\* UpdateNextMembership; st.err is set when validatorsMembership fails
UpdateNextMembership(st, valSet) ==
    LET mbs == validatorsMembership(valSet)
    IN IF ~mbs.ok THEN [st EXCEPT !.err = "membership"]
       ELSE LET w == WriteSlot(st.mem, st.heap, PendingSlot(st.cur), mbs.mbs)
            IN [st EXCEPT !.mem = w.mem, !.heap = w.heap]

\* the vote table after sm.reconfigurationVotes[cur][h]++
IncVote(votes, cur, h) ==
    [e \in (DOMAIN votes) \cup {cur} |->
        IF e = cur
        THEN LET old == IF cur \in DOMAIN votes THEN votes[cur] ELSE <<>>
             IN [x \in (DOMAIN old) \cup {h} |->
                    IF x = h THEN VoteCount(votes, cur, h) + 1 ELSE old[x]]
        ELSE votes[e]]

\* a check that adds up the votes for the set over all epochs
UpdateAndCheckVotesAllEpochs(st, valSet) ==
    LET h == Hash(valSet)
        votes2 == IncVote(st.votes, st.cur, h)
        nodes == MembershipLen(st.mem, st.heap, st.cur)
        all == SumOver([e \in DOMAIN votes2 |-> VoteCount(votes2, e, h)], DOMAIN votes2)
    IN [st |-> [st EXCEPT !.votes = votes2],
        voted |-> ~(all < weakQuorum(nodes))]
\* UpdateAndCheckVotes: the new vote table and whether valSet has enough votes
UpdateAndCheckVotes(st, valSet) ==
    LET h == Hash(valSet)
        votes2 == IncVote(st.votes, st.cur, h)
        nodes == MembershipLen(st.mem, st.heap, st.cur)
    IN [st |-> [st EXCEPT !.votes = votes2],
        voted |-> ~(VoteCount(votes2, st.cur, h) < weakQuorum(nodes))]

\* references start at 1; 0 stands for a missing entry
SlotRef(mem, e) == IF e \in DOMAIN mem THEN mem[e] ELSE 0

applyConfigMsg(st, in) ==
    IF ~IsValSetCBOR(in.Data) THEN [st EXCEPT !.err = "unmarshal"]
    ELSE LET newValSet == UnmarshalCBOR(in.Data)
             r == UpdateAndCheckVotes(st, newValSet)
             st2 == IF r.voted THEN UpdateNextMembership(r.st, newValSet) ELSE r.st
         IN [st2 EXCEPT !.voters = @ \cup {<<st.cur, in.ClientId>>}]

\* a loop that starts the vote table of the epoch afresh at a transport request
RECURSIVE applyRequestsFreshVotes(_, _, _)
applyRequestsFreshVotes(st, txs, i) ==
    IF i > Len(txs) \/ st.err # Nil THEN st
    ELSE IF txs[i].Type = TransportType
         THEN applyRequestsFreshVotes(
                  [st EXCEPT !.msgs = Append(@, txs[i].Data),
                             !.votes = [e \in DOMAIN @ |-> <<>>]], txs, i + 1)
         ELSE applyRequestsFreshVotes(applyConfigMsg(st, txs[i]), txs, i + 1)
\* the loop over the batch in ApplyTXs; it stops at the first error
RECURSIVE applyRequests(_, _, _)
applyRequests(st, txs, i) ==
    IF i > Len(txs) \/ st.err # Nil THEN st
    ELSE IF txs[i].Type = TransportType
         THEN applyRequests([st EXCEPT !.msgs = Append(@, txs[i].Data)], txs, i + 1)
         ELSE applyRequests(applyConfigMsg(st, txs[i]), txs, i + 1)

\* ------------------------------------------------------- block production
\* Manager.GetMessages: the batch's payloads as host-chain messages
GetMessages(batch) == batch.Messages

\* CertAsElectionProof / CheckpointAsVRFProof
CertAsElectionProof(ch) == [WinCount |-> 0, VRFProof |-> <<"cert", ch.Cert>>]
CheckpointAsVRFProof(ch) == [VRFProof |-> ch.AppData]

\* a header that takes the timestamp of the block template
CreateBlockTemplateTime(bt) ==
    [Miner |-> SystemActorAddr,
     Parents |-> bt.Parents,
     Ticket |-> bt.Ticket,
     ElectionProof |-> bt.Eproof,
     Height |-> bt.Epoch,
     Timestamp |-> bt.Timestamp,
     Messages |-> bt.Messages]
\* Mir.CreateBlock: the header built from the block template
CreateBlock(bt) ==
    [Miner |-> SystemActorAddr,
     Parents |-> bt.Parents,
     Ticket |-> bt.Ticket,
     ElectionProof |-> bt.Eproof,
     Height |-> bt.Epoch,
     Timestamp |-> bt.Epoch,
     Messages |-> bt.Messages]

Clock == {1000, 2000}
HostOutcomes == {"ok", "headErr", "proofErr", "createErr", "nilBlock", "submitErr"}

TransportRequest == [Type |-> TransportType, ClientId |-> "f1", ReqNo |-> 0, Data |-> <<"msg">>]
ConfigRequests ==
    {[Type |-> ReconfigurationType, ClientId |-> s, ReqNo |-> 0, Data |-> MarshalCBOR(set)] :
        s \in Senders, set \in ValSetPool}
    \cup {[Type |-> ReconfigurationType, ClientId |-> "1", ReqNo |-> 0, Data |-> JunkBytes]}
Requests == {TransportRequest} \cup ConfigRequests
Batches == UNION {[1..n -> Requests] : n \in 0..MaxBatch}

\* addresses of the ID protocol other than the system actor, and an address
\* of another protocol
IDAddr == "f01000"
KeyAddr == "f1abc"

\* consensus.MsgsFromBlockTemplate completes the header CreateBlock built:
\* the aggregate of the messages' signatures is set, the block signature is
\* left nil
MsgsFromBlockTemplate(next) == next @@ [BlockSig |-> Nil, BLSAggregate |-> "agg"]

\* blockSanityChecks: the error for header h, Nil when it passes
blockSanityChecks(h) ==
    IF h.ElectionProof.WinCount # 0 THEN "wincount"
    ELSE IF h.Ticket.VRFProof # NoProof /\ h.ElectionProof.VRFProof = NoProof THEN "noeproof"
    ELSE IF h.Ticket.VRFProof = NoProof /\ h.ElectionProof.VRFProof # NoProof THEN "noticket"
    ELSE IF h.BlockSig # Nil THEN "blocksig"
    ELSE IF h.BLSAggregate = Nil THEN "noaggregate"
    ELSE IF Len(h.Parents) # 1 THEN "parents"
    ELSE IF h.Miner \notin {SystemActorAddr, IDAddr} THEN "protocol"
    ELSE IF h.Miner # SystemActorAddr THEN "miner"
    ELSE Nil

\* a weight that is the height of the tipset
WeightAsHeight(ts) == IF ts = <<>> THEN 0 ELSE ts[1].Height
\* Weight: the height of the tipset plus one, 0 for no tipset
Weight(ts) == IF ts = <<>> THEN 0 ELSE ts[1].Height + 1

\* ChainStore().LoadTipSet: the tipset of chain c with the key parents, as a
\* sequence of one block, empty when c has none
LoadTipSet(c, parents) ==
    LET found == {i \in DOMAIN c : <<BlockCid(c[i])>> = parents}
    IN IF found = {} THEN <<>> ELSE <<c[CHOOSE i \in found : TRUE]>>

\* ValidateBlock: the error for the block with header h received over
\* chain c, Nil when it is accepted; rest is the outcome of the checks run
\* after the header rules (common block checks, checkpoint verification)
ValidateBlock(c, h, rest) ==
    IF blockSanityChecks(h) # Nil THEN blockSanityChecks(h)
    ELSE LET baseTs == LoadTipSet(c, h.Parents)
         IN IF baseTs = <<>> THEN "load"
            ELSE IF h.Height <= baseTs[1].Height THEN "height"
            ELSE IF h.Timestamp # h.Height THEN "timestamp"
            ELSE IF Weight(baseTs) # h.ParentWeight THEN "weight"
            ELSE IF rest # "ok" THEN rest
            ELSE Nil

\* the headers a peer may send over chain c: for every block of c the two
\* well-formed children at the next heights, with and without checkpoint,
\* and every header that departs from one of them in one rule
ChildOf(parent, height, proofs) ==
    [Miner |-> SystemActorAddr,
     Parents |-> <<BlockCid(parent)>>,
     Ticket |-> [VRFProof |-> IF proofs THEN <<"ckpt">> ELSE NoProof],
     ElectionProof |-> [WinCount |-> 0,
                        VRFProof |-> IF proofs THEN <<"cert">> ELSE NoProof],
     Height |-> height, Timestamp |-> height, Messages |-> <<>>,
     BlockSig |-> Nil, BLSAggregate |-> "agg",
     ParentWeight |-> parent.Height + 1]
Departures(parent, v) ==
    {v,
     [v EXCEPT !.ElectionProof.WinCount = 1],
     [v EXCEPT !.Ticket.VRFProof = IF @ = NoProof THEN <<"ckpt">> ELSE NoProof],
     [v EXCEPT !.ElectionProof.VRFProof = IF @ = NoProof THEN <<"cert">> ELSE NoProof],
     [v EXCEPT !.BlockSig = "sig"],
     [v EXCEPT !.BLSAggregate = Nil],
     [v EXCEPT !.Parents = <<>>],
     [v EXCEPT !.Parents = <<BlockCid(parent), BlockCid(parent)>>],
     [v EXCEPT !.Parents = <<NoCid>>],
     [v EXCEPT !.Miner = IDAddr],
     [v EXCEPT !.Miner = KeyAddr],
     [v EXCEPT !.Timestamp = v.Height + 1],
     [v EXCEPT !.Timestamp = CHOOSE t \in Clock : TRUE],
     [v EXCEPT !.Height = parent.Height, !.Timestamp = parent.Height],
     [v EXCEPT !.ParentWeight = parent.Height],
     [v EXCEPT !.ParentWeight = v.Height]}
ReceivedBlocks(c) ==
    UNION {Departures(c[i], ChildOf(c[i], c[i].Height + d, proofs)) :
             i \in DOMAIN c, d \in 1..2, proofs \in BOOLEAN}

\* a peer's block is validated
ValidateReceived(h, rest) ==
    /\ last' = [op |-> "ValidateBlock", ok |-> ValidateBlock(chain, h, rest) = Nil,
                err |-> ValidateBlock(chain, h, rest), block |-> h]
    /\ UNCHANGED <<smAllVars, pool, mgrVars>>

\* template slots in which only the ticket carries the polled checkpoint
TemplateProofsTicketOnly(polled, ch) ==
    [Ticket |-> IF polled THEN CheckpointAsVRFProof(ch) ELSE [VRFProof |-> NoProof],
     Eproof |-> [WinCount |-> 0, VRFProof |-> NoProof]]
\* the Ticket and Eproof of the block template: the polled checkpoint, if any
TemplateProofs(polled, ch) ==
    [Ticket |-> IF polled THEN CheckpointAsVRFProof(ch) ELSE [VRFProof |-> NoProof],
     Eproof |-> IF polled THEN CertAsElectionProof(ch)
                          ELSE [WinCount |-> 0, VRFProof |-> NoProof]]

\* a target height that repeats the height of the chain head
TargetHeightOfHead(base) == base.Height
\* nextHeight := base.Height() + 1
TargetHeight(base) == base.Height + 1

\* the block template of ApplyTXs
BlockTemplate(base, polled, ch, msgs, now) ==
    [Miner |-> SystemActorAddr,
     Parents |-> <<BlockCid(base)>>,
     Ticket |-> TemplateProofs(polled, ch).Ticket,
     Eproof |-> TemplateProofs(polled, ch).Eproof,
     Epoch |-> TargetHeight(base),
     Timestamp |-> now,
     Messages |-> GetMessages([Messages |-> msgs])]

\* a block that carries the wall clock of the validator that built it
ApplyTXsBlockStamped(base, polled, ch, msgs, now) ==
    [CreateBlock(BlockTemplate(base, polled, ch, msgs, now)) EXCEPT !.Timestamp = now]
\* the block ApplyTXs asks the host to create on top of base
ApplyTXsBlock(base, polled, ch, msgs, now) ==
    CreateBlock(BlockTemplate(base, polled, ch, msgs, now))

\* the messages ApplyTXs collects from a batch
BatchMessages(txs) ==
    applyRequests([cur |-> currentEpoch, mem |-> memberships, heap |-> heap,
                   votes |-> reconfigurationVotes, msgs |-> <<>>,
                   voters |-> {}, err |-> Nil], txs, 1).msgs

ApplyTXs(txs, now, host) ==
    /\ ~blocked
    /\ LET st == applyRequests([cur |-> currentEpoch, mem |-> memberships, heap |-> heap,
                                votes |-> reconfigurationVotes, msgs |-> <<>>,
                                voters |-> {}, err |-> Nil], txs, 1)
           base == ChainHead
           nextHeight == TargetHeight(base)
           polled == NextCheckpoint # <<>>
           ch == NextCheckpoint[1]
           bh == ApplyTXsBlock(base, polled, ch, st.msgs, now)
           \* the call returned before the checkpoint channel was polled
           early == st.err # Nil \/ host = "headErr"
           submitted == ~early /\ host = "ok"
       IN /\ TotalVotes(st.votes) <= MaxVotes
          /\ host = "proofErr" => polled
          /\ submitted => nextHeight <= MaxHeight
          /\ memberships' = st.mem
          /\ heap' = st.heap
          /\ reconfigurationVotes' = st.votes
          /\ voted' = voted \cup st.voters
          /\ NextCheckpoint' = IF early THEN NextCheckpoint ELSE <<>>
          /\ chain' = IF submitted THEN Append(chain, bh) ELSE chain
          /\ owed' = IF submitted /\ polled THEN owed - 1 ELSE owed
          /\ last' = [op |-> "ApplyTXs", ok |-> st.err = Nil /\ host \in {"ok", "nilBlock"}]
          /\ UNCHANGED <<currentEpoch, prevCheckpoint, ds, snapshot, startCheckpoint, blocked,
                          pool, mgrVars>>

\* ---------------------------------------------------------------- epochs
\* the table after NewEpoch(nr): a copy of the entry at nr+ConfigOffset is
\* stored at nr+ConfigOffset+1
NewEpochTableAliased(mem, hp, nr) ==
    [mem |-> [x \in (DOMAIN mem) \cup {nr + ConfigOffset + 1} |->
                 IF x = nr + ConfigOffset + 1 THEN SlotRef(mem, nr + ConfigOffset) ELSE mem[x]],
     heap |-> hp]
NewEpochTable(mem, hp, nr) ==
    WriteSlot(mem, hp, nr + ConfigOffset + 1, MembershipAt(mem, hp, nr + ConfigOffset))

\* a sanity check that also lets the current epoch be announced again
IsNextEpochOrCurrent(cur, nr) == nr = cur + 1 \/ nr = cur
\* the sanity check of NewEpoch: nr == sm.currentEpoch+1
IsNextEpoch(cur, nr) == nr = cur + 1

NewEpoch(nr) ==
    /\ ~blocked
    /\ currentEpoch + 1 <= MaxEpoch
    /\ IF ~IsNextEpoch(currentEpoch, nr)
       THEN /\ last' = [op |-> "NewEpoch", ok |-> FALSE]
            /\ UNCHANGED <<currentEpoch, memberships, heap, voted>>
       ELSE LET t == NewEpochTable(memberships, heap, nr)
            IN /\ memberships' = t.mem
               /\ heap' = t.heap
               /\ currentEpoch' = nr
               /\ voted' = {p \in voted : p[1] = nr}
               /\ last' = [op |-> "NewEpoch", ok |-> TRUE]
    /\ UNCHANGED <<reconfigurationVotes, prevCheckpoint, NextCheckpoint, chain, ds, snapshot,
                   startCheckpoint, blocked, owed, pool, mgrVars>>

\* ------------------------------------------------------------- snapshots
\* GetCheckpointPeriod: the segment length times the number of validators
GetCheckpointPeriod(mem, hp, cur) == SegmentLength * MembershipLen(mem, hp, cur)

\* the loop of Snapshot: the CIDs of the blocks at heights i, i-1, .. low
RECURSIVE SnapshotCidsAbove(_, _)
SnapshotCidsAbove(i, low) ==
    IF i > low THEN <<BlockCidAt(i)>> \o SnapshotCidsAbove(i - 1, low) ELSE <<>>
RECURSIVE SnapshotCidsAscending(_, _)
SnapshotCidsAscending(i, low) ==
    IF i >= low THEN SnapshotCidsAscending(i - 1, low) \o <<BlockCidAt(i)>> ELSE <<>>
RECURSIVE SnapshotCids(_, _)
SnapshotCids(i, low) ==
    IF i >= low THEN <<BlockCidAt(i)>> \o SnapshotCids(i - 1, low) ELSE <<>>

\* a wait that returns at once, wherever the head is
waitForBlockNoWait(height) == TRUE
\* waitForBlock: the head reaches the height before the timeout
waitForBlock(height) == HeadHeight >= height

SnapshotOutcomes == {"ok", "headErr", "tsErr"}

Snapshot(out) ==
    /\ ~blocked
    /\ LET nextHeight == prevCheckpoint.Height
                            + GetCheckpointPeriod(memberships, heap, currentEpoch)
           i == nextHeight - 1
           ch == [Height |-> nextHeight,
                  Parent |-> prevCheckpoint,
                  BlockCids |-> SnapshotCids(i, prevCheckpoint.Height)]
           err == IF out = "headErr" THEN "headErr"
                  ELSE IF ~waitForBlock(i) THEN "timeout"
                  ELSE IF out = "tsErr" THEN "tsErr"
                  ELSE Nil
       IN /\ out = "tsErr" => i >= prevCheckpoint.Height
          /\ snapshot' = IF err = Nil THEN <<CheckpointBytes(ch)>> ELSE snapshot
          /\ last' = [op |-> "Snapshot", ok |-> err = Nil]
    /\ UNCHANGED <<smVars, hostVars, startCheckpoint, blocked, owed, voted, pool, mgrVars>>

\* ------------------------------------------------------------ checkpoints
\* the engine's stable checkpoint around an application snapshot
StableCheckpoint(appData, epochNr, mems) ==
    [AppData |-> appData, EpochNr |-> epochNr, Memberships |-> mems, Cert |-> "cert"]

\* StableCheckpoint.Serialize
Serialize(stable) == <<"pb", stable>>

\* ds.Put on one of the two indexes
Put(index, k, v) == {p \in index : p[1] # k} \cup {<<k, v>>}

\* a delivery that writes the two indexes first and the latest records last
deliverCheckpointLatestLast(store, prev, stable, snap, fail) ==
    LET b == Serialize(stable)
        c == CheckpointCid(snap)
        s1 == [store EXCEPT !.byHeight = Put(@, snap.Height, b)]
        s2 == [s1 EXCEPT !.byCid = Put(@, c, stable.AppData)]
        s3 == [s2 EXCEPT !.latestPb = <<b>>]
        s4 == [s3 EXCEPT !.latest = <<stable.AppData>>]
        p4 == [Height |-> snap.Height, Cid |-> c]
    IN CASE fail = 1 -> [ds |-> store, prev |-> prev, err |-> "put"]
         [] fail = 2 -> [ds |-> s1, prev |-> p4, err |-> "put"]
         [] fail = 3 -> [ds |-> s2, prev |-> p4, err |-> "put"]
         [] fail = 4 -> [ds |-> s3, prev |-> p4, err |-> "put"]
         [] OTHER -> [ds |-> s4, prev |-> p4, err |-> Nil]
\* deliverCheckpoint up to the channel send; fail in 1..4 is the Put that fails
deliverCheckpoint(store, prev, stable, snap, fail) ==
    LET b == Serialize(stable)
        c == CheckpointCid(snap)
        s1 == [store EXCEPT !.latest = <<stable.AppData>>]
        s2 == [s1 EXCEPT !.latestPb = <<b>>]
        s3 == [s2 EXCEPT !.byHeight = Put(@, snap.Height, b)]
        s4 == [s3 EXCEPT !.byCid = Put(@, c, stable.AppData)]
        p4 == [Height |-> snap.Height, Cid |-> c]
    IN CASE fail = 1 -> [ds |-> store, prev |-> prev, err |-> "put"]
         [] fail = 2 -> [ds |-> s1, prev |-> prev, err |-> "put"]
         [] fail = 3 -> [ds |-> s2, prev |-> prev, err |-> "put"]
         [] fail = 4 -> [ds |-> s3, prev |-> p4, err |-> "put"]
         [] OTHER -> [ds |-> s4, prev |-> p4, err |-> Nil]

PutFailures == 0..4

EngineMemberships ==
    [i \in 1..(ConfigOffset + 1) |-> MembershipAt(memberships, heap, currentEpoch + i - 1)]

\* Pool.Purge: every entry is dropped
Purge(pl) == {}
\* the older Checkpoint, which returns without touching the pool
PoolAfterCheckpointOlder(pl) == pl
\* the pool after deliverCheckpoint returned without error: sm.MirManager.Pool.Purge()
PoolAfterCheckpoint(pl) == Purge(pl)

Checkpoint(appData, fail) ==
    /\ ~blocked
    /\ snapshot' = <<>>
    /\ IF ~IsCheckpointBytes(appData)
       THEN /\ fail = 0
            /\ last' = [op |-> "Checkpoint", ok |-> FALSE]
            /\ UNCHANGED <<prevCheckpoint, NextCheckpoint, ds, blocked, owed, pool>>
       ELSE LET stable == StableCheckpoint(appData, currentEpoch, EngineMemberships)
                d == deliverCheckpoint(ds, prevCheckpoint, stable,
                                       CheckpointFromBytes(appData), fail)
            IN /\ ds' = d.ds
               /\ prevCheckpoint' = d.prev
               /\ IF d.err # Nil
                  THEN UNCHANGED <<NextCheckpoint, blocked, owed, pool>>
                  ELSE IF Len(NextCheckpoint) < 1
                       THEN /\ NextCheckpoint' = Append(NextCheckpoint, stable)
                            /\ owed' = owed + 1
                            /\ pool' = PoolAfterCheckpoint(pool)
                            /\ UNCHANGED blocked
                       ELSE \* sm.NextCheckpoint <- checkpoint on a full channel
                            /\ blocked' = TRUE
                            /\ UNCHANGED <<NextCheckpoint, owed, pool>>
               /\ last' = [op |-> "Checkpoint", ok |-> d.err = Nil]
    /\ UNCHANGED <<currentEpoch, memberships, heap, reconfigurationVotes, chain,
                   startCheckpoint, voted, mgrVars>>

\* ---------------------------------------------------------- request pool
\* Pool.IsTargetRequest: the nonce is the next one of the client and the
\* request is not in the pool
IsTargetRequest(pl, clientID, nonce) ==
    /\ <<clientID, nonce>> \notin pl
    /\ \A n \in 0..(nonce - 1) : <<clientID, n>> \in pl
\* Pool.AddRequest
AddRequest(pl, clientID, nonce) == pl \cup {<<clientID, nonce>>}

Clients == {"f1", "f2"}
Nonces == 0..MaxBatch

\* Manager.batchSignedMessages for one signed message of the mempool
batchSignedMessages(clientID, nonce) ==
    /\ ~blocked
    /\ pool' = IF IsTargetRequest(pool, clientID, nonce)
               THEN AddRequest(pool, clientID, nonce) ELSE pool
    /\ last' = [op |-> "batchSignedMessages", ok |-> IsTargetRequest(pool, clientID, nonce)]
    /\ UNCHANGED <<smVars, hostVars, snapshot, startCheckpoint, blocked, owed, voted, mgrVars>>

\* ---------------------------------------------------------- restoration
\* the entries RestoreState writes for config.Memberships: the loop index
\* e (from 0) is the key
RECURSIVE RestoreEntries(_, _, _, _)
RestoreEntries(mems, base, i, acc) ==
    IF i > Len(mems) THEN acc
    ELSE LET w == WriteSlot(acc.mem, acc.heap, base + i - 1, mems[i])
         IN RestoreEntries(mems, base, i + 1, w)

RestoreTableSkewed(config) ==
    LET t == RestoreEntries(config.Memberships, config.EpochNr, 1, [mem |-> <<>>, heap |-> <<>>])
    IN WriteSlot(t.mem, t.heap, config.EpochNr + ConfigOffset + 1,
                 MembershipAt(t.mem, t.heap, config.EpochNr + ConfigOffset))
RestoreTable(config) ==
    LET t == RestoreEntries(config.Memberships, 0, 1, [mem |-> <<>>, heap |-> <<>>])
    IN WriteSlot(t.mem, t.heap, config.EpochNr + ConfigOffset + 1,
                 MembershipAt(t.mem, t.heap, config.EpochNr + ConfigOffset))

\* the chain the other validators hold: the local one, continued by blocks
\* without messages up to height h
RECURSIVE NetChain(_, _)
NetChain(c, h) ==
    IF Len(c) - 1 >= h THEN c
    ELSE NetChain(Append(c, CreateBlock([Parents |-> <<BlockCid(c[Len(c)])>>,
                                         Ticket |-> [VRFProof |-> NoProof],
                                         Eproof |-> [WinCount |-> 0, VRFProof |-> NoProof],
                                         Epoch |-> Len(c),
                                         Timestamp |-> 0,
                                         Messages |-> <<>>])), h)

\* SyncPurgeForRecovery: the state strictly after the height is dropped
SyncPurgeForRecovery(c, h) == IF Len(c) - 1 > h THEN SubSeq(c, 1, h + 1) ELSE c

\* a loop that gives up when the first connected peer does not serve
SyncFromFirstPeer(peers, i, waits, internalSync) ==
    IF Len(peers) = 0 \/ peers[1] = "fail" THEN "none"
    ELSE IF ~waits THEN "timeout"
    ELSE "synced"
\* the loop over the connected peers: "none" when no peer served the tipset,
\* "timeout" when a wait for the fetched tipset failed
RECURSIVE SyncFromPeers(_, _, _, _)
SyncFromPeers(peers, i, waits, internalSync) ==
    IF i > Len(peers) THEN (IF internalSync THEN "synced" ELSE "none")
    ELSE IF peers[i] = "fail" THEN SyncFromPeers(peers, i + 1, waits, internalSync)
    ELSE IF ~waits THEN "timeout"
    ELSE SyncFromPeers(peers, i + 1, waits, TRUE)

PeerLists == {<<>>, <<"fail">>, <<"serve">>, <<"fail", "serve">>, <<"serve", "fail">>}

\* the error RestoreState returns, Nil when it succeeds; "panic" is the
\* index out of range of ch.BlockCids[0] on a snapshot without block CIDs
RestoreError(stable, purge, netPeers, peers, waits, fail) ==
    LET ch == CheckpointFromBytes(stable.AppData)
        sync == SyncFromPeers(peers, 1, waits, FALSE)
    IN IF Len(stable.AppData) = 0 THEN Nil
       ELSE IF ~IsCheckpointBytes(stable.AppData) THEN "frombytes"
       ELSE IF purge = "err" THEN "purge"
       ELSE IF netPeers = "err" THEN "netpeers"
       ELSE IF Len(peers) = 0 THEN "nopeers"
       ELSE IF Len(ch.BlockCids) = 0 THEN "panic"
       ELSE IF sync = "timeout" THEN "timeout"
       ELSE IF sync = "none" THEN "nogoodpeers"
       ELSE deliverCheckpoint(ds, prevCheckpoint, stable, ch, fail).err

\* a release that leaves the channel as it finds it
releaseNothing(ch) == ch
\* releaseNextCheckpointChan: a pending checkpoint is taken out and dropped
releaseNextCheckpointChan(ch) == <<>>

RestoreState(stable, purge, netPeers, peers, waits, fail) ==
    /\ ~blocked
    /\ LET config == [EpochNr |-> stable.EpochNr, Memberships |-> stable.Memberships]
           t == RestoreTable(config)
           drained == releaseNextCheckpointChan(NextCheckpoint)
           released == drained # NextCheckpoint
           hasSnapshot == Len(stable.AppData) > 0
           decodes == IsCheckpointBytes(stable.AppData)
           ch == CheckpointFromBytes(stable.AppData)
           purged == SyncPurgeForRecovery(chain, ch.Height)
           sync == SyncFromPeers(peers, 1, waits, FALSE)
           d == deliverCheckpoint(ds, prevCheckpoint, stable, ch, fail)
           err == RestoreError(stable, purge, netPeers, peers, waits, fail)
           purgeDone == hasSnapshot /\ decodes /\ purge = "ok"
           fetched == purgeDone /\ netPeers = "ok" /\ Len(ch.BlockCids) > 0
                        /\ \E i \in DOMAIN peers : peers[i] = "serve"
           delivering == hasSnapshot /\ decodes /\ purge = "ok" /\ netPeers = "ok"
                           /\ Len(ch.BlockCids) > 0 /\ sync = "synced"
       IN /\ currentEpoch' = config.EpochNr
          /\ memberships' = t.mem
          /\ heap' = t.heap
          /\ chain' = IF fetched /\ waits THEN NetChain(purged, ch.Height - 1)
                      ELSE IF purgeDone THEN purged ELSE chain
          /\ ds' = IF delivering THEN d.ds ELSE ds
          /\ prevCheckpoint' = IF delivering THEN d.prev ELSE prevCheckpoint
          \* the send at the end of deliverCheckpoint blocks on a full channel
          /\ blocked' = (delivering /\ d.err = Nil /\ drained # <<>>)
          /\ NextCheckpoint' = IF delivering /\ d.err = Nil /\ drained = <<>>
                                THEN <<stable>> ELSE drained
          /\ owed' = owed - (IF released THEN 1 ELSE 0)
                          + (IF delivering /\ d.err = Nil /\ drained = <<>> THEN 1 ELSE 0)
          /\ voted' = {p \in voted : p[1] = config.EpochNr}
          /\ last' = [op |-> "RestoreState", ok |-> err = Nil]
    /\ UNCHANGED <<reconfigurationVotes, snapshot, startCheckpoint, pool, mgrVars>>

\* the memberships a restored checkpoint records for its epoch and the
\* ConfigOffset following ones
ConfigMemberships ==
    {[i \in 1..(ConfigOffset + 1) |-> validatorsMembership(IF i = 1 THEN a ELSE b).mbs] :
        a \in {VS4}, b \in {VS5}}

\* the checkpoints other validators can have agreed on
PeerCheckpoints ==
    {LET c == NetChain(chain, h - 1)
     IN [Height |-> h, Parent |-> prevCheckpoint,
         BlockCids |-> [i \in 1..(h - prevCheckpoint.Height) |-> BlockCid(c[h - i + 1])]] :
        h \in (prevCheckpoint.Height)..(MaxHeight + 1)}

SnapshotlessCheckpoints ==
    {StableCheckpoint(a, e, ms) : a \in {<<>>}, e \in 0..MaxEpoch, ms \in ConfigMemberships}

SnapshotCheckpoints ==
    {StableCheckpoint(CheckpointBytes(c), e, ms) :
        c \in PeerCheckpoints, e \in {currentEpoch}, ms \in ConfigMemberships}

\* ---------------------------------------------------------------- manager
MaxValidators == 3
MaxChanges == 2
MaxStops == 2

\* the id of this node: the address of validator 1
OwnId == ValidatorID(Validator(1))

ErrMissingOwnIdentityInMembership == "ErrMissingOwnIdentityInMembership"
ErrMinNumValidatorNotReached == "ErrMinNumValidatorNotReached"
ErrWaitForMembershipTimeout == "ErrWaitForMembershipTimeout"

\* a reading that does not compare the size of the set with MinValidators
getMembershipInfoNoFloor(readErr, info) ==
    IF readErr THEN "read"
    ELSE IF Len(info.ValidatorSet) = 0 THEN "empty"
    ELSE IF ~validatorsMembership(info.ValidatorSet).ok THEN "membership"
    ELSE IF OwnId \notin DOMAIN validatorsMembership(info.ValidatorSet).mbs
         THEN ErrMissingOwnIdentityInMembership
    ELSE Nil
\* getMembershipInfo: the error it returns for what the source returned, Nil
\* when the membership is accepted
getMembershipInfo(readErr, info) ==
    IF readErr THEN "read"
    ELSE IF Len(info.ValidatorSet) = 0 THEN "empty"
    ELSE IF info.MinValidators > Len(info.ValidatorSet) THEN ErrMinNumValidatorNotReached
    ELSE IF ~validatorsMembership(info.ValidatorSet).ok THEN "membership"
    ELSE IF OwnId \notin DOMAIN validatorsMembership(info.ValidatorSet).mbs
         THEN ErrMissingOwnIdentityInMembership
    ELSE Nil

\* validators 2, 3, ..: a set without this node
Others(n) == [i \in 1..n |-> Validator(i + 1)]

StartSets == {VS(n) : n \in 0..MaxValidators} \cup {Others(n) : n \in 1..MaxValidators}
                \cup {VSBad}
StartSources == {Info(set, min) : set \in StartSets, min \in 1..MaxValidators}

\* a wait that polls again after every error of a reading
waitForMembershipStepRetryAll(err) ==
    IF err # Nil THEN "waiting" ELSE "started"
\* what waitForMembershipInfo does with the error of one reading: poll again,
\* return the error, or return the membership
waitForMembershipStep(err) ==
    IF err \in {ErrMissingOwnIdentityInMembership, ErrMinNumValidatorNotReached}
    THEN "waiting"
    ELSE IF err # Nil THEN "aborted"
    ELSE "started"

\* one tick of waitForMembershipInfo; when the membership is accepted
\* NewManager goes on: it starts the transport and builds the StateManager
\* over the membership it was given
waitForMembershipInfo(readErr) ==
    /\ startup = "waiting"
    /\ LET err == getMembershipInfo(readErr, source)
       IN /\ startup' = waitForMembershipStep(err)
          /\ heap' = IF err = Nil THEN (1 :> validatorsMembership(source.ValidatorSet).mbs)
                     ELSE heap
          /\ lastValidatorSet' = IF err = Nil THEN source.ValidatorSet ELSE lastValidatorSet
          /\ calls' = IF err = Nil THEN [calls EXCEPT !.netStart = @ + 1] ELSE calls
          /\ last' = [op |-> "getMembershipInfo", ok |-> err = Nil, err |-> err]
    /\ UNCHANGED <<currentEpoch, memberships, reconfigurationVotes, prevCheckpoint,
                   NextCheckpoint, hostVars, snapshot, startCheckpoint, blocked, owed, voted,
                   pool, source, configRequests, NextConfigurationNumber, observed,
                   serve, exit, ctxDone, mirCtxDone, mirErrChan, mirRun, stopped, interceptor,
                   pullVars>>

\* the timeout of waitForMembershipInfo elapses
waitForMembershipTimeout ==
    /\ startup = "waiting"
    /\ startup' = "timeout"
    /\ last' = [op |-> ErrWaitForMembershipTimeout, ok |-> FALSE]
    /\ UNCHANGED <<smAllVars, pool, source, reconfVars, lifeVars, pullVars>>

\* the membership source is given another content
SourceWrite(info) ==
    /\ source # info
    /\ source' = info
    /\ UNCHANGED <<smAllVars, pool, last, startup, reconfVars, lifeVars, pullVars>>

\* an engine context derived from the context of the host
mirCtxOfHost(cancelled, outerDone) == cancelled \/ outerDone
\* m.mirCtx is cancelled: it is made from context.Background()
mirCtxCancelled(cancelled, outerDone) == cancelled

EngineCtxDone == mirCtxCancelled(mirCtxDone, ctxDone)

\* a stop that runs the shutdown sequence at every call
stopUnguarded(st) ==
    [stopped |-> TRUE, mirCtxDone |-> TRUE,
     calls |-> [st.calls EXCEPT !.stop = @ + 1, !.mirCancel = @ + 1,
                                !.interceptorStop = @ + (IF interceptor THEN 1 ELSE 0),
                                !.netStop = @ + 1, !.mirNodeStop = @ + 1],
     waits |-> TRUE]
\* Manager.stop up to the receive from mirErrChan; waits tells whether the
\* call goes on to that receive
stop(st) ==
    IF st.stopped
    THEN [st EXCEPT !.calls.stop = @ + 1, !.waits = FALSE]
    ELSE [stopped |-> TRUE, mirCtxDone |-> TRUE,
          calls |-> [st.calls EXCEPT !.stop = @ + 1, !.mirCancel = @ + 1,
                                     !.interceptorStop = @ + (IF interceptor THEN 1 ELSE 0),
                                     !.netStop = @ + 1, !.mirNodeStop = @ + 1],
          waits |-> TRUE]

StopState == [stopped |-> stopped, mirCtxDone |-> mirCtxDone, calls |-> calls, waits |-> FALSE]

\* Serve leaves its loop: the deferred m.stop() runs up to its receive
Leave(cause) ==
    /\ exit' = cause
    /\ stopped' = stop(StopState).stopped
    /\ mirCtxDone' = stop(StopState).mirCtxDone
    /\ calls' = stop(StopState).calls
    /\ serve' = IF stop(StopState).waits THEN "stop" ELSE "done"

\* Serve up to its loop: the goroutine of mirNode.Run is started, then the
\* pending configuration requests are read
ServeStart(pending) ==
    /\ startup = "started"
    /\ serve = "new"
    /\ mirRun' = "running"
    /\ last' = [op |-> "Serve", ok |-> pending = "ok"]
    /\ IF pending = "err"
       THEN Leave("pendingErr")
       ELSE /\ serve' = "loop"
            /\ UNCHANGED <<exit, stopped, mirCtxDone, calls>>
    /\ UNCHANGED <<smAllVars, pool, startup, source, reconfVars, ctxDone, mirErrChan,
                   interceptor, pullVars>>

\* the host cancels the context it gave to Serve
CancelCtx ==
    /\ startup = "started"
    /\ ~ctxDone
    /\ ctxDone' = TRUE
    /\ UNCHANGED <<smAllVars, pool, last, startup, source, reconfVars, serve, exit,
                   mirCtxDone, mirErrChan, mirRun, stopped, interceptor, calls, pullVars>>

\* mirNode.Run returns an error of the engine; the goroutine sends it
mirNodeRunFails ==
    /\ mirRun = "running"
    /\ mirRun' = "exited"
    /\ mirErrChan' = Append(mirErrChan, "fault")
    /\ UNCHANGED <<smAllVars, pool, last, startup, source, reconfVars, serve, exit, ctxDone,
                   mirCtxDone, stopped, interceptor, calls, pullVars>>

\* mirNode.Run returns ErrStopped once its context is cancelled
mirNodeRunStopped ==
    /\ mirRun = "running"
    /\ EngineCtxDone
    /\ mirRun' = "exited"
    /\ mirErrChan' = Append(mirErrChan, "ErrStopped")
    /\ UNCHANGED <<smAllVars, pool, last, startup, source, reconfVars, serve, exit, ctxDone,
                   mirCtxDone, stopped, interceptor, calls, pullVars>>

\* case <-ctx.Done()
ServeCtxDone ==
    /\ serve = "loop"
    /\ ctxDone
    /\ Leave("ctxClosed")
    /\ last' = [op |-> "ctxDone", ok |-> TRUE]
    /\ UNCHANGED <<smAllVars, pool, startup, source, reconfVars, ctxDone, mirErrChan, mirRun,
                   interceptor, pullVars>>

\* case err := <-m.mirErrChan: panic; the deferred calls run while it unwinds
ServeMirErr ==
    /\ serve = "loop"
    /\ mirErrChan # <<>>
    /\ mirErrChan' = Tail(mirErrChan)
    /\ Leave("panic")
    /\ last' = [op |-> "mirErrChan", ok |-> FALSE]
    /\ UNCHANGED <<smAllVars, pool, startup, source, reconfVars, ctxDone, mirRun,
                   interceptor, pullVars>>

\* ValidatorSet.Equal on two sets that are not nil
Equal(set, o) ==
    /\ Len(set) = Len(o)
    /\ \A i \in DOMAIN set : set[i] = o[i]

\* ConfigurationManager.NewTX: the request numbered n, and the number stored
NewTX(n, payload) ==
    [request |-> <<[Type |-> ReconfigurationType, ClientId |-> OwnId, ReqNo |-> n,
                    Data |-> payload]>>,
     next |-> n + 1]

\* createAndStoreConfigurationRequest: no request when NewTX fails
createAndStoreConfigurationRequest(n, set, out) ==
    IF out = "err" THEN [request |-> <<>>, next |-> n]
    ELSE NewTX(n, MarshalCBOR(set))

\* case <-reconfigure.C
ServeReconfigure(readErr, out) ==
    /\ serve = "loop"
    /\ IF readErr \/ Equal(lastValidatorSet, source.ValidatorSet)
       THEN /\ out = "ok"
            /\ UNCHANGED reconfVars
       ELSE LET r == createAndStoreConfigurationRequest(NextConfigurationNumber,
                                                        source.ValidatorSet, out)
            IN /\ observed < MaxChanges
               /\ observed' = observed + 1
               /\ lastValidatorSet' = source.ValidatorSet
               /\ configRequests' = configRequests \o r.request
               /\ NextConfigurationNumber' = r.next
    /\ last' = [op |-> "reconfigure", ok |-> ~readErr /\ out = "ok"]
    /\ UNCHANGED <<smAllVars, pool, startup, source, lifeVars, pullVars>>

\* case mirChan := <-m.readyForTxsChan, up to the call of ChainHead
ServeReadyForTxs ==
    /\ serve = "loop"
    /\ mirRun = "running"
    /\ unanswered' = unanswered + 1
    /\ last' = [op |-> "readyForTxs", ok |-> ~ctxDone]
    /\ IF ctxDone
       THEN Leave("ctxClosed")
       ELSE /\ serve' = "pull"
            /\ UNCHANGED <<exit, stopped, mirCtxDone, calls>>
    /\ UNCHANGED <<smAllVars, pool, startup, source, reconfVars, ctxDone, mirErrChan, mirRun,
                   interceptor, requests, handed>>

SignedMessages == Clients \X Nonces
MpoolSelections == UNION {[1..n -> SignedMessages] : n \in 0..MaxBatch}

\* the loop of batchSignedMessages over the selected messages
RECURSIVE batchRequests(_, _, _, _)
batchRequests(pl, msgs, i, reqs) ==
    IF i > Len(msgs) THEN [pool |-> pl, requests |-> reqs]
    ELSE IF ~IsTargetRequest(pl, msgs[i][1], msgs[i][2])
         THEN batchRequests(pl, msgs, i + 1, reqs)
         ELSE batchRequests(AddRequest(pl, msgs[i][1], msgs[i][2]), msgs, i + 1,
                            Append(reqs, [Type |-> TransportType, ClientId |-> msgs[i][1],
                                          ReqNo |-> msgs[i][2],
                                          Data |-> <<"msg", msgs[i][1], msgs[i][2]>>]))

\* a wrapping that does not ask the pool
createTransportRequestsUnfiltered(pl, msgs) ==
    [pool |-> pl \cup Range(msgs),
     requests |-> [i \in DOMAIN msgs |->
                      [Type |-> TransportType, ClientId |-> msgs[i][1], ReqNo |-> msgs[i][2],
                       Data |-> <<"msg", msgs[i][1], msgs[i][2]>>]]]
\* createTransportRequests
createTransportRequests(pl, msgs) == batchRequests(pl, msgs, 1, <<>>)

\* the request pull from ChainHead to the batch; a failed MpoolSelect is
\* logged and leaves msgs nil
ServeRequestPull(head, mpool, msgs) ==
    /\ serve = "pull"
    /\ last' = [op |-> "requestPull", ok |-> head = "ok" /\ mpool = "ok", head |-> head,
                selected |-> msgs]
    /\ IF head = "err"
       THEN /\ mpool = "ok" /\ msgs = <<>>
            /\ Leave("headErr")
            /\ UNCHANGED <<pool, requests>>
       ELSE LET w == createTransportRequests(pool, IF mpool = "err" THEN <<>> ELSE msgs)
            IN /\ mpool = "err" => msgs = <<>>
               /\ pool' = w.pool
               /\ requests' = w.requests \o configRequests
               /\ serve' = "send"
               /\ UNCHANGED <<exit, stopped, mirCtxDone, calls>>
    /\ UNCHANGED <<smAllVars, startup, source, reconfVars, ctxDone, mirErrChan, mirRun,
                   interceptor, unanswered, handed>>

TransportPairs(reqs) ==
    {<<reqs[i].ClientId, reqs[i].ReqNo>> : i \in {j \in DOMAIN reqs : reqs[j].Type = TransportType}}

\* case mirChan <- requests
ServeReply ==
    /\ serve = "send"
    /\ handed' = handed \cup TransportPairs(requests)
    /\ unanswered' = unanswered - 1
    /\ requests' = <<>>
    /\ serve' = "loop"
    /\ last' = [op |-> "reply", ok |-> TRUE]
    /\ UNCHANGED <<smAllVars, pool, startup, source, reconfVars, exit, ctxDone, mirCtxDone,
                   mirErrChan, mirRun, stopped, interceptor, calls>>

\* case <-ctx.Done() of the inner select
ServeReplyCtxDone ==
    /\ serve = "send"
    /\ ctxDone
    /\ Leave("ctxClosed")
    /\ last' = [op |-> "reply", ok |-> FALSE]
    /\ UNCHANGED <<smAllVars, pool, startup, source, reconfVars, ctxDone, mirErrChan, mirRun,
                   interceptor, pullVars>>

\* err := <-m.mirErrChan at the end of stop: Serve has returned
StopDrain ==
    /\ serve = "stop"
    /\ mirErrChan # <<>>
    /\ mirErrChan' = Tail(mirErrChan)
    /\ serve' = "done"
    /\ last' = [op |-> "stop", ok |-> Head(mirErrChan) = "ErrStopped"]
    /\ UNCHANGED <<smAllVars, pool, startup, source, reconfVars, exit, ctxDone, mirCtxDone,
                   mirRun, stopped, interceptor, calls, pullVars>>

\* m.stop() is called once more after Serve has returned
StopAgain ==
    /\ serve = "done"
    /\ calls.stop < MaxStops
    /\ stopped' = stop(StopState).stopped
    /\ mirCtxDone' = stop(StopState).mirCtxDone
    /\ calls' = stop(StopState).calls
    /\ last' = [op |-> "stopAgain", ok |-> TRUE]
    /\ UNCHANGED <<smAllVars, pool, startup, source, reconfVars, serve, exit, ctxDone,
                   mirErrChan, mirRun, interceptor, pullVars>>

\* --------------------------------------------------------- specification
\* the outcomes of the host calls of one RestoreState: each outcome is
\* listed once, with the later calls it never reaches left at their default
HostRuns ==
    {[purge |-> "err", netPeers |-> "ok", peers |-> <<>>, waits |-> TRUE, fail |-> 0],
     [purge |-> "ok", netPeers |-> "err", peers |-> <<>>, waits |-> TRUE, fail |-> 0]}
    \cup {[purge |-> "ok", netPeers |-> "ok", peers |-> ps, waits |-> TRUE, fail |-> f] :
            ps \in PeerLists, f \in PutFailures}
    \cup {[purge |-> "ok", netPeers |-> "ok", peers |-> ps, waits |-> FALSE, fail |-> 0] :
            ps \in PeerLists}
NoHostRun == [purge |-> "ok", netPeers |-> "ok", peers |-> <<>>, waits |-> TRUE, fail |-> 0]

\* the engine restores a checkpoint of the node's epoch or of a later one
RestoreWith(stable, run) ==
    /\ stable.EpochNr >= currentEpoch
    /\ run.fail # 0 => \E i \in DOMAIN run.peers : run.peers[i] = "serve"
    /\ ~run.waits => \E i \in DOMAIN run.peers : run.peers[i] = "serve"
    /\ RestoreState(stable, run.purge, run.netPeers, run.peers, run.waits, run.fail)

ApplyTXsAny ==
    \E txs \in Batches, now \in Clock, host \in HostOutcomes : ApplyTXs(txs, now, host)
NewEpochAny == \E nr \in 0..(MaxEpoch + 1) : NewEpoch(nr)
SnapshotAny == \E out \in SnapshotOutcomes : Snapshot(out)
CheckpointAny ==
    \E appData \in {JunkBytes} \cup Range(snapshot), fail \in PutFailures :
        Checkpoint(appData, fail)
RestoreStateAny ==
    \/ \E stable \in SnapshotlessCheckpoints : RestoreWith(stable, NoHostRun)
    \/ \E stable \in SnapshotCheckpoints, run \in HostRuns : RestoreWith(stable, run)

Next == ApplyTXsAny \/ NewEpochAny \/ SnapshotAny \/ CheckpointAny \/ RestoreStateAny

Spec == Init /\ [][Next]_vars

\* Reconfiguration: the callbacks that touch the epoch, the membership
\* table and the votes; of the chain they produce the first block only

ReconfInit == Init /\ Cardinality(DOMAIN heap[1]) >= 4

ConfigBatches == {txs \in Batches : \A i \in DOMAIN txs : txs[i].Type = ReconfigurationType}

ReconfApplyTXs ==
    \* the clock has no part in these runs: one reading stands for all
    \E txs \in ConfigBatches, now \in {CHOOSE t \in Clock : TRUE},
       host \in {"ok", "createErr"} :
        /\ host = "ok" => chain = <<GenesisBlock>>
        /\ ApplyTXs(txs, now, host)
ReconfRestoreState == \E stable \in SnapshotlessCheckpoints : RestoreWith(stable, NoHostRun)

ReconfNext == ReconfApplyTXs \/ NewEpochAny \/ ReconfRestoreState

ReconfSpec == ReconfInit /\ [][ReconfNext]_vars

\* Epochs: reconfiguration and epoch changes of a validator that is never
\* restored
EpochNext == ReconfApplyTXs \/ NewEpochAny

EpochSpec == ReconfInit /\ [][EpochNext]_vars

\* Checkpointing: block production without configuration requests, and the
\* snapshots and checkpoints over it
TransportBatches == {txs \in Batches : \A i \in DOMAIN txs : txs[i].Type = TransportType}

CkptInit == Init /\ Cardinality(DOMAIN heap[1]) <= 2

CkptApplyTXs ==
    \E txs \in TransportBatches, now \in Clock, host \in HostOutcomes : ApplyTXs(txs, now, host)

CkptNext == CkptApplyTXs \/ SnapshotAny \/ CheckpointAny

CkptSpec == CkptInit /\ [][CkptNext]_vars


\* Restoration: a single validator that produces empty blocks, takes
\* snapshots and checkpoints, and is restored from checkpoints of its peers
EmptyBatches == {txs \in Batches : Len(txs) = 0}

RestoreInit == Init /\ Cardinality(DOMAIN heap[1]) = 1

RestoreApplyTXs ==
    \E txs \in EmptyBatches, now \in {CHOOSE t \in Clock : TRUE}, host \in {"ok", "headErr"} :
        ApplyTXs(txs, now, host)
RestoreCheckpoint == \E appData \in Range(snapshot) : Checkpoint(appData, 0)
\* datastore failures and timeouts are tried with a single serving peer
RestoreRuns ==
    {run \in HostRuns : run.fail # 0 \/ ~run.waits => run.peers = <<"serve">>}
RestoreRestoreState ==
    \E stable \in SnapshotCheckpoints, run \in RestoreRuns : RestoreWith(stable, run)

RestoreNext == RestoreApplyTXs \/ SnapshotAny \/ RestoreCheckpoint \/ RestoreRestoreState

RestoreSpec == RestoreInit /\ [][RestoreNext]_vars

\* Senders: a single validator applies configuration requests, those of
\* another node included, over its epochs
SenderSpec == RestoreInit /\ [][EpochNext]_vars

\* Catch-up: a single validator that produces empty blocks, takes snapshots
\* and checkpoints, and is moved to a later epoch by a checkpoint without
\* application snapshot
\* only snapshots above the previous checkpoint are made stable, which keeps
\* the chain of checkpoints finite
CatchUpCheckpoint ==
    \E appData \in Range(snapshot) :
        /\ CheckpointFromBytes(appData).Height > prevCheckpoint.Height
        /\ Checkpoint(appData, 0)

CatchUpNext == RestoreApplyTXs \/ SnapshotAny \/ CatchUpCheckpoint \/ ReconfRestoreState

CatchUpSpec == RestoreInit /\ [][CatchUpNext]_vars

\* Request pool: messages enter the pool while a single validator produces
\* blocks and checkpoints; checkpoints are agreed with requests in flight
PoolBatchSignedMessages ==
    \E clientID \in Clients, nonce \in Nonces : batchSignedMessages(clientID, nonce)
PoolCheckpoint ==
    \E appData \in {JunkBytes} \cup Range(snapshot), fail \in PutFailures :
        /\ pool # {}
        /\ Checkpoint(appData, fail)

PoolNext == PoolBatchSignedMessages \/ RestoreApplyTXs \/ SnapshotAny \/ PoolCheckpoint

PoolSpec == RestoreInit /\ [][PoolNext]_vars

\* Block production after a vote: a validator counts configuration requests
\* before its first block and then produces blocks, snapshots and
\* checkpoints from batches without configuration requests
FrameInit == Init /\ Cardinality(DOMAIN heap[1]) \in {2, 4}

FrameVote ==
    \E txs \in ConfigBatches, now \in {CHOOSE t \in Clock : TRUE} :
        /\ chain = <<GenesisBlock>>
        /\ TotalVotes(reconfigurationVotes) = 0
        /\ ApplyTXs(txs, now, "ok")
FrameApplyTXs ==
    \E txs \in TransportBatches, now \in {CHOOSE t \in Clock : TRUE},
       host \in {"ok", "headErr"} : ApplyTXs(txs, now, host)

FrameNext == FrameVote \/ FrameApplyTXs \/ SnapshotAny \/ CheckpointAny

FrameSpec == FrameInit /\ [][FrameNext]_vars

\* Validation: a single validator produces empty blocks while blocks of
\* peers are validated over its chain
ValidateReceivedAny ==
    \E h \in ReceivedBlocks(chain), rest \in {"ok", "checks"} : ValidateReceived(h, rest)

ValidateNext == RestoreApplyTXs \/ ValidateReceivedAny

ValidateSpec == RestoreInit /\ [][ValidateNext]_vars

\* Startup: the wait for a membership this node can start with
StartInit == \E info \in StartSources : Constructed(<<>>, <<>>, info, "waiting", FALSE)

StartTick == \E readErr \in BOOLEAN : waitForMembershipInfo(readErr)
StartSourceWrite == \E info \in StartSources : SourceWrite(info)

StartNext == StartTick \/ waitForMembershipTimeout \/ StartSourceWrite

StartSpec == StartInit /\ [][StartNext]_vars

\* Serving: the main loop of the Manager of a validator of four, with and
\* without event recorder, answering request pulls from an empty mempool
ServeInit ==
    \E recorder \in BOOLEAN :
        Constructed(validatorsMembership(VS4).mbs, VS4, Info(VS4, 1), "started", recorder)

ServeStartAny == \E pending \in {"ok", "err"} : ServeStart(pending)
ServeTick == \E readErr \in BOOLEAN : ServeReconfigure(readErr, "ok")
ServeEmptyPull ==
    \E head \in {"ok", "err"}, mpool \in {"ok", "err"} : ServeRequestPull(head, mpool, <<>>)

ServeNext ==
    \/ ServeStartAny
    \/ CancelCtx
    \/ mirNodeRunFails
    \/ mirNodeRunStopped
    \/ ServeCtxDone
    \/ ServeMirErr
    \/ ServeTick
    \/ ServeReadyForTxs
    \/ ServeEmptyPull
    \/ ServeReply
    \/ ServeReplyCtxDone
    \/ StopDrain
    \/ StopAgain

ServeSpec == ServeInit /\ [][ServeNext]_vars

\* Membership changes: the source is rewritten while the Manager serves
SourceSets == {VS4, VS5, VS4r}
MembershipWrite == \E set \in SourceSets : SourceWrite(Info(set, 1))
MembershipTick == \E readErr \in BOOLEAN, out \in {"ok", "err"} : ServeReconfigure(readErr, out)
MembershipPull == ServeRequestPull("ok", "ok", <<>>)

MembershipNext ==
    \/ ServeStart("ok")
    \/ MembershipWrite
    \/ MembershipTick
    \/ ServeReadyForTxs
    \/ MembershipPull
    \/ ServeReply

MembershipSpec == ServeInit /\ [][MembershipNext]_vars

\* Request pulls: the mempool keeps offering the messages of its clients
PullSelect == \E msgs \in MpoolSelections : ServeRequestPull("ok", "ok", msgs)

PullNext ==
    \/ ServeStart("ok")
    \/ CancelCtx
    \/ ServeCtxDone
    \/ mirNodeRunStopped
    \/ ServeReadyForTxs
    \/ PullSelect
    \/ ServeReply
    \/ ServeReplyCtxDone
    \/ StopDrain

PullSpec == ServeInit /\ [][PullNext]_vars

\* Hand-over: the Manager of a single validator sees its membership source
\* change, hands the configuration requests to the engine at the request
\* pulls, and the engine delivers what it was handed to ApplyTXs
HandWrite == \E set \in {VS1, VS2, VS4} : SourceWrite(Info(set, 1))
HandTick == ServeReconfigure(FALSE, "ok")
\* the engine delivers the configuration requests of the batch it was just
\* handed
HandDeliver ==
    /\ last.op = "reply"
    /\ configRequests # <<>>
    /\ ApplyTXs(configRequests, CHOOSE t \in Clock : TRUE, "ok")

HandNext ==
    \/ ServeStart("ok")
    \/ HandWrite
    \/ HandTick
    \/ ServeReadyForTxs
    \/ MembershipPull
    \/ ServeReply
    \/ HandDeliver

HandSpec == RestoreInit /\ [][HandNext]_vars

\* ------------------------------------------------------------ properties
WellFormed(set) == \A i \in DOMAIN set : ValidMultiaddr(set[i].NetAddr)
MembersOf(set) == validatorsMembership(set).mbs

VotesBefore(set) == VoteCount(reconfigurationVotes, currentEpoch, Hash(set))
VotesAfter(set) == VoteCount(reconfigurationVotes', currentEpoch, Hash(set))
PendingContent == MembershipAt(memberships, heap, currentEpoch + ConfigOffset + 1)
PendingContentAfter == MembershipAt(memberships', heap', currentEpoch + ConfigOffset + 1)
PendingUntouched ==
    /\ SlotRef(memberships', currentEpoch + ConfigOffset + 1)
         = SlotRef(memberships, currentEpoch + ConfigOffset + 1)
    /\ PendingContentAfter = PendingContent
\* the sets whose request the step counted and that have their weak quorum
\* floor((n-1)/3)+1 of votes after it
ReachedQuorum ==
    {set \in ValSetPool :
        /\ VotesAfter(set) > VotesBefore(set)
        /\ VotesAfter(set) >= ((MembershipLen(memberships, heap, currentEpoch) - 1) \div 3) + 1}

\* C1: an ApplyTXs call writes a validator set S of a configuration request
\* to the pending slot current+K+1 exactly when the votes for hash(S) in the
\* current epoch have reached floor((n-1)/3)+1, n the size of the current
\* membership (S being a set of validators with multi-addresses): with n=4
\* the first vote leaves the slot alone and the second writes it, with n=7
\* the third does.
C1_WeakQuorumApplies ==
    [][last'.op = "ApplyTXs" =>
        LET n == MembershipLen(memberships, heap, currentEpoch)
            reached == {set \in ReachedQuorum : WellFormed(set)}
        IN /\ reached = {} => PendingUntouched
           /\ reached # {} => \E set \in reached : PendingContentAfter = MembersOf(set)
           /\ \A set \in ValSetPool :
                WellFormed(set) /\ VotesAfter(set) > VotesBefore(set) =>
                    /\ n = 4 /\ VotesAfter(set) = 1 => PendingUntouched
                    /\ n = 4 /\ VotesAfter(set) = 2 => PendingContentAfter = MembersOf(set)
                    /\ n = 7 /\ VotesAfter(set) = 2 => PendingUntouched
                    /\ n = 7 /\ VotesAfter(set) = 3 => PendingContentAfter = MembersOf(set)
    ]_vars

C1_Witness ==
    /\ last.op = "ApplyTXs"
    /\ MembershipLen(memberships, heap, currentEpoch) = 7
    /\ VoteCount(reconfigurationVotes, currentEpoch, Hash(VS5)) = 3
    /\ MembershipAt(memberships, heap, currentEpoch + ConfigOffset + 1) = MembersOf(VS5)

\* C2: within one epoch each voter contributes at most one vote: the votes
\* counted in the current epoch never exceed the number of validators whose
\* requests were applied in it.
C2_OneVotePerVoter ==
    currentEpoch \in DOMAIN reconfigurationVotes =>
        SumOver(reconfigurationVotes[currentEpoch], DOMAIN reconfigurationVotes[currentEpoch])
            <= Cardinality({s \in Senders : <<currentEpoch, s>> \in voted})

\* C3: the table has an entry for the current epoch and each of the K+1
\* following ones, and none for a later epoch.
C3_LookAheadWindow ==
    /\ \A e \in currentEpoch..(currentEpoch + ConfigOffset + 1) : e \in DOMAIN memberships
    /\ \A e \in DOMAIN memberships : e <= currentEpoch + ConfigOffset + 1

\* C4: an ApplyTXs call changes no table entry but the pending one at
\* current+K+1: every other epoch keeps its entry and the entry its content.
C4_OnlyPendingChanges ==
    [][last'.op = "ApplyTXs" =>
        /\ DOMAIN memberships \cup {currentEpoch + ConfigOffset + 1}
             = DOMAIN memberships' \cup {currentEpoch + ConfigOffset + 1}
        /\ \A e \in DOMAIN memberships \ {currentEpoch + ConfigOffset + 1} :
             heap'[memberships'[e]] = heap[memberships[e]]
    ]_vars

C4_Witness ==
    /\ last.op = "ApplyTXs"
    /\ currentEpoch = 0
    /\ heap[memberships[ConfigOffset + 1]] = MembersOf(VS5)
    /\ \A e \in 0..ConfigOffset : memberships[e] = memberships[0]
    /\ heap[memberships[0]] # MembersOf(VS5)

\* C5: every checkpoint pushed to NextCheckpoint and not drained since is
\* either still in the channel or embedded in exactly one produced block.
C5_CheckpointEmbedded == owed = Len(NextCheckpoint)

\* C6: Checkpoint never blocks on the NextCheckpoint channel.
C6_CheckpointNeverBlocks == ~blocked

CidHeight(c) == c[2].Height
LastSnapshot == CheckpointFromBytes(snapshot[1])

\* C7 (as stated): the BlockCIDs of a checkpoint returned by Snapshot are
\* the CIDs of the blocks at heights Parent.Height+1 .. Height.
C7_Original ==
    last.op = "Snapshot" /\ last.ok =>
        Range(LastSnapshot.BlockCids)
            = {BlockCidAt(h) : h \in (LastSnapshot.Parent.Height + 1)..LastSnapshot.Height}

\* C7 (amended): the BlockCIDs of a checkpoint returned by Snapshot are the
\* CIDs of exactly the blocks at heights Parent.Height .. Height-1.
C7_SnapshotRange ==
    last.op = "Snapshot" /\ last.ok =>
        /\ Range(LastSnapshot.BlockCids)
             = {BlockCidAt(h) : h \in LastSnapshot.Parent.Height..(LastSnapshot.Height - 1)}
        /\ NoCid \notin Range(LastSnapshot.BlockCids)

C7_Witness ==
    /\ last.op = "Snapshot" /\ last.ok
    /\ Cardinality(Range(LastSnapshot.BlockCids)) = 2

\* BlockCIDs has Height - Parent.Height entries, the most recent block first
DescendingCids(c) ==
    /\ Len(c.BlockCids) = c.Height - c.Parent.Height
    /\ \A i \in DOMAIN c.BlockCids :
         /\ c.BlockCids[i] # NoCid
         /\ CidHeight(c.BlockCids[i]) = c.Height - i

\* C8 (as stated): every checkpoint the StateManager creates or starts from,
\* the genesis one included, lists Height - Parent.Height CIDs, most recent
\* first.
C8_Original ==
    /\ DescendingCids(startCheckpoint)
    /\ snapshot # <<>> => DescendingCids(LastSnapshot)

\* C8 (amended): every checkpoint Snapshot creates lists Height -
\* Parent.Height CIDs, most recent first; the genesis checkpoint a fresh
\* StateManager starts from has Height 1, Parent.Height 0 and no CID.
C8_CheckpointShape ==
    /\ snapshot # <<>> => DescendingCids(LastSnapshot)
    /\ ds.latest = <<>> /\ last.op = "init" =>
         /\ startCheckpoint.Height = 1
         /\ startCheckpoint.Parent.Height = 0
         /\ startCheckpoint.BlockCids = <<>>

C8_Witness ==
    /\ snapshot # <<>>
    /\ Len(LastSnapshot.BlockCids) = 2
    /\ CidHeight(LastSnapshot.BlockCids[1]) > CidHeight(LastSnapshot.BlockCids[2])
    /\ startCheckpoint.BlockCids = <<>>

\* C9: a successful NewEpoch(nr) makes nr the current epoch, leaves the
\* entries of nr .. nr+K alone and stores at nr+K+1 a map equal to the one at
\* nr+K that is a map of its own, shared with no other entry.
C9_NewEpochCopies ==
    [][last'.op = "NewEpoch" /\ last'.ok =>
        LET nr == currentEpoch'
        IN /\ nr = currentEpoch + 1
           /\ \A e \in nr..(nr + ConfigOffset) :
                /\ SlotRef(memberships', e) = SlotRef(memberships, e)
                /\ MembershipAt(memberships', heap', e) = MembershipAt(memberships, heap, e)
           /\ nr + ConfigOffset + 1 \in DOMAIN memberships'
           /\ MembershipAt(memberships', heap', nr + ConfigOffset + 1)
                = MembershipAt(memberships', heap', nr + ConfigOffset)
           /\ \A e \in DOMAIN memberships' \ {nr + ConfigOffset + 1} :
                memberships'[e] # memberships'[nr + ConfigOffset + 1]
    ]_vars

C9_Witness ==
    /\ last.op = "NewEpoch" /\ last.ok
    /\ currentEpoch = 1
    /\ heap[memberships[currentEpoch + ConfigOffset + 1]] = MembersOf(VS5)
    /\ heap[memberships[currentEpoch + ConfigOffset]] = MembersOf(VS5)
    /\ heap[memberships[currentEpoch]] # MembersOf(VS5)

\* C10: after NewEpoch(nr) there is no membership and no vote record of an
\* epoch earlier than nr-1.
C10_OldEpochsDropped ==
    last.op = "NewEpoch" /\ last.ok =>
        /\ \A e \in DOMAIN memberships : e >= currentEpoch - 1
        /\ \A e \in DOMAIN reconfigurationVotes : e >= currentEpoch - 1

\* C11: a NewEpoch call either is the one for current+1 and succeeds, or
\* returns an error and leaves the current epoch, every membership entry and
\* every vote record as they were.
C11_WrongEpochRejected ==
    [][last'.op = "NewEpoch" =>
        \/ last'.ok /\ currentEpoch' = currentEpoch + 1
        \/ /\ ~last'.ok
           /\ currentEpoch' = currentEpoch
           /\ memberships' = memberships
           /\ heap' = heap
           /\ reconfigurationVotes' = reconfigurationVotes
    ]_vars

C11_Witness ==
    /\ last.op = "NewEpoch" /\ ~last.ok
    /\ currentEpoch = 1
    /\ VoteCount(reconfigurationVotes, currentEpoch, Hash(VS5)) > 0
    /\ MembershipAt(memberships, heap, currentEpoch + ConfigOffset + 1) = MembersOf(VS5)

\* C12: every block an ApplyTXs call produces is appended to the validator's
\* chain at exactly one more than the height of the block before it, on top
\* of that block: the heights along the chain are 0, 1, 2, ... with no gap
\* and no height twice.
C12_HeightsByOne ==
    [][last'.op = "ApplyTXs" =>
        /\ \/ chain' = chain
           \/ /\ Len(chain') = Len(chain) + 1
              /\ SubSeq(chain', 1, Len(chain)) = chain
              /\ chain'[Len(chain')].Height = chain[Len(chain)].Height + 1
              /\ chain'[Len(chain')].Parents = <<BlockCid(chain[Len(chain)])>>
        /\ \A i \in DOMAIN chain' : chain'[i].Height = i - 1
    ]_vars

C12_Witness ==
    /\ last.op = "ApplyTXs" /\ last.ok
    /\ Len(chain) = 3
    /\ chain[3].Height = 2 /\ chain[2].Height = 1
    /\ chain[3].Parents = <<BlockCid(chain[2])>>

\* the blocks of the chain that ApplyTXs produced: all but the genesis block
ProducedBlocks == {chain[i] : i \in 2..Len(chain)}

\* C13: every block produced by ApplyTXs has Timestamp equal to its Height,
\* exactly one parent and the system actor address as Miner, whatever
\* timestamp the block template carried.
C13_BlockHeaderFields ==
    \A b \in ProducedBlocks :
        /\ b.Timestamp = b.Height
        /\ Len(b.Parents) = 1
        /\ b.Miner = SystemActorAddr

C13_Witness ==
    /\ last.op = "ApplyTXs" /\ last.ok
    /\ Len(chain) = 3
    /\ chain[3].Timestamp = 2
    /\ \A now \in Clock : chain[3].Timestamp # now

\* C14: a block produced by ApplyTXs has Ticket and ElectionProof both
\* populated when a checkpoint was pending in NextCheckpoint at that call and
\* both empty when none was, so every produced block passes the sanity
\* checks of block validation.
C14_BothOrNeither ==
    [][last'.op = "ApplyTXs" /\ chain' # chain =>
        LET b == chain'[Len(chain')]
        IN /\ NextCheckpoint # <<>> =>
                b.Ticket.VRFProof # NoProof /\ b.ElectionProof.VRFProof # NoProof
           /\ NextCheckpoint = <<>> =>
                b.Ticket.VRFProof = NoProof /\ b.ElectionProof.VRFProof = NoProof
           /\ blockSanityChecks(MsgsFromBlockTemplate(b)) = Nil
    ]_vars

C14_Witness ==
    /\ last.op = "ApplyTXs" /\ last.ok
    /\ Len(chain) >= 3
    /\ chain[Len(chain)].Ticket.VRFProof # NoProof
    /\ chain[Len(chain)].ElectionProof.VRFProof # NoProof
    /\ chain[2].Ticket.VRFProof = NoProof
    /\ chain[2].ElectionProof.VRFProof = NoProof

\* c is the stable checkpoint the state was restored from: its epoch is the
\* current one, its snapshot is the previous checkpoint and the latest
\* record, and its memberships are the table's first entries
RestoredFrom(c, cur, prev, store, mem, hp) ==
    /\ c.EpochNr = cur
    /\ IsCheckpointBytes(c.AppData)
    /\ prev = [Height |-> CheckpointFromBytes(c.AppData).Height,
               Cid |-> CheckpointCid(CheckpointFromBytes(c.AppData))]
    /\ store.latest = <<c.AppData>>
    /\ \A i \in DOMAIN c.Memberships : MembershipAt(mem, hp, i - 1) = c.Memberships[i]

\* C15: RestoreState never leaves in NextCheckpoint the checkpoint that was
\* pending when it was called: after the call the channel is empty or, when
\* the call succeeded, holds exactly the restored checkpoint; and a block
\* embeds nothing but the checkpoint pending at its ApplyTXs call.
C15_DrainOnRestore ==
    [][/\ last'.op = "RestoreState" =>
            /\ ~blocked'
            /\ IF last'.ok
               THEN /\ Len(NextCheckpoint') = 1
                    /\ RestoredFrom(NextCheckpoint'[1], currentEpoch', prevCheckpoint', ds',
                                    memberships', heap')
               ELSE NextCheckpoint' = <<>>
       /\ last'.op = "ApplyTXs" /\ chain' # chain =>
            chain'[Len(chain')].Ticket.VRFProof
                = (IF NextCheckpoint = <<>> THEN NoProof
                   ELSE CheckpointAsVRFProof(NextCheckpoint[1]).VRFProof)
    ]_vars

\* restored while an earlier checkpoint, delivered and in no block, was pending
C15_Witness ==
    /\ last.op = "RestoreState" /\ last.ok
    /\ Len(NextCheckpoint) = 1
    /\ Cardinality(ds.byHeight) = 2
    /\ \A b \in ProducedBlocks : b.Ticket.VRFProof = NoProof
    /\ owed = 1

\* C16: after a successful RestoreState the table holds, for the current
\* epoch e and the K epochs after it, the memberships the checkpoint's
\* configuration records for them, and at e+K+1 a copy of the one at e+K.
C16_RestoredTable ==
    last.op = "RestoreState" /\ last.ok =>
        \E ms \in ConfigMemberships :
            /\ \A i \in DOMAIN ms :
                 MembershipAt(memberships, heap, currentEpoch + i - 1) = ms[i]
            /\ MembershipAt(memberships, heap, currentEpoch + ConfigOffset + 1)
                 = ms[ConfigOffset + 1]

Serves(peers) == \E i \in DOMAIN peers : peers[i] = "serve"

\* C17: RestoreState of a checkpoint with a snapshot returns an error when
\* none of the connected peers serves the tipset of the snapshot's first
\* block CID, also when no peer is connected, and succeeds when a peer at
\* any position of the list serves it and the syncer reaches its height; a
\* successful restore leaves the chain head at the fetched tipset.
C17_PeersDecide ==
    /\ \A stable \in SnapshotCheckpoints, peers \in PeerLists :
         Len(CheckpointFromBytes(stable.AppData).BlockCids) > 0 =>
            /\ ~Serves(peers) =>
                 \A waits \in BOOLEAN, fail \in PutFailures :
                    RestoreError(stable, "ok", "ok", peers, waits, fail) # Nil
            /\ Serves(peers) =>
                 /\ RestoreError(stable, "ok", "ok", peers, TRUE, 0) = Nil
                 /\ RestoreError(stable, "ok", "ok", peers, FALSE, 0) # Nil
    /\ last.op = "RestoreState" /\ last.ok =>
         /\ Len(NextCheckpoint) = 1
         /\ LET ch == CheckpointFromBytes(NextCheckpoint[1].AppData)
            IN /\ HeadHeight >= ch.Height - 1
               /\ BlockCidAt(ch.Height - 1) = ch.BlockCids[1]
    /\ last.op = "RestoreState" /\ ~last.ok => NextCheckpoint = <<>>

C17_Witness ==
    /\ last.op = "RestoreState" /\ last.ok
    /\ Len(NextCheckpoint) = 1
    /\ HeadHeight = CheckpointFromBytes(NextCheckpoint[1].AppData).Height - 1
    /\ HeadHeight = MaxHeight
    /\ BlockCidAt(HeadHeight) = CheckpointFromBytes(NextCheckpoint[1].AppData).BlockCids[1]

\* C18: a checkpoint returned by Snapshot has as Parent the previous
\* checkpoint of the StateManager and as Height the parent's height plus
\* SegmentLength times the size of the current epoch's membership, so that
\* it lies strictly above its parent.
C18_SnapshotHeight ==
    last.op = "Snapshot" /\ last.ok =>
        /\ LastSnapshot.Parent = prevCheckpoint
        /\ LastSnapshot.Height = LastSnapshot.Parent.Height
              + SegmentLength * MembershipLen(memberships, heap, currentEpoch)
        /\ LastSnapshot.Height > LastSnapshot.Parent.Height

LatestHeight == CheckpointFromBytes(ds.latest[1]).Height

C20_PoolPurged ==
    [][last'.op = "Checkpoint" /\ last'.ok /\ ~blocked' =>
        /\ pool' = {}
        /\ \A c \in Clients : IsTargetRequest(pool', c, 0)
    ]_vars

\* PoolSpec agrees checkpoints only with requests in flight
C20_Witness ==
    /\ last.op = "Checkpoint" /\ last.ok /\ ~blocked
    /\ pool = {}
    /\ Len(NextCheckpoint) = 1

C22_AbortCompletes ==
    ~(exit = "panic" /\ serve = "stop" /\ mirErrChan = <<>> /\ mirRun = "exited")

\* C23: whenever Serve leaves its loop after the context was cancelled, it
\* returns nil because the context is closed.
C23_CancelledServeReturnsNil ==
    [][(ctxDone /\ serve \in {"loop", "pull", "send"} /\ serve' \in {"stop", "done"}) =>
        exit' = "ctxClosed"
    ]_vars

\* the engine's context is cancelled only once the outer context is
C24_Original == EngineCtxDone => ctxDone

\* C24: the engine's context is cancelled by stop alone, after Serve has left
\* its loop, whatever made it leave: while Serve is in its loop the engine's
\* context is live, also when the outer context is cancelled already.
C24_EngineCtxAfterServe ==
    EngineCtxDone => /\ stopped
                     /\ serve \in {"stop", "done"}
                     /\ exit # Nil

\* Serve has returned on an error and stopped the engine under a live context
C24_Witness ==
    /\ EngineCtxDone /\ ~ctxDone
    /\ serve = "done" /\ exit = "pendingErr"
    /\ calls.mirCancel = 1

\* C25: over the life of a Manager the engine's context is cancelled at most
\* once and the transport, started once at construction, is stopped at most
\* once, both exactly once as soon as stop has been called; a call of stop
\* on a stopped Manager changes nothing.
C25_StopIdempotent ==
    /\ [](/\ calls.netStart = 1
          /\ calls.mirCancel <= 1
          /\ calls.netStop <= 1
          /\ calls.interceptorStop = (IF interceptor THEN calls.netStop ELSE 0)
          /\ calls.stop >= 1 => (calls.mirCancel = 1 /\ calls.netStop = 1 /\ stopped))
    /\ [][(stopped /\ calls'.stop = calls.stop + 1) =>
            /\ calls' = [calls EXCEPT !.stop = @ + 1]
            /\ UNCHANGED <<stopped, mirCtxDone, mirErrChan, mirRun, serve, exit>>
       ]_vars

\* stop has been called a second time on a Manager with an event recorder
C25_Witness ==
    /\ calls.stop >= 2
    /\ interceptor
    /\ calls.netStop = 1 /\ calls.mirCancel = 1 /\ calls.interceptorStop = 1
    /\ serve = "done"

\* C26: a request pull in which the chain-head read or the mempool selection
\* fails goes on to answer the engine: Serve does not leave its loop and the
\* engine's context stays live.
C26_PullErrorsSkipped ==
    [][(serve = "pull" /\ last'.op = "requestPull" /\ ~last'.ok) =>
        /\ serve' = "send"
        /\ exit' = Nil
        /\ ~mirCtxDone'
    ]_vars

\* C27: a request is made, numbered and queued for every membership change
\* seen at a tick, so the stored NextConfigurationNumber is its initial
\* value, 0, plus the number of changes seen.
C27_OneRequestPerChange ==
    /\ NextConfigurationNumber = observed
    /\ Len(configRequests) = observed

\* C28: at most one reply channel is unanswered at a time, and Serve leaves
\* one unanswered only when it returns because the context is closed.
C28_EveryPullAnswered ==
    /\ unanswered <= 1
    /\ (serve \in {"stop", "done"} /\ unanswered > 0) => exit = "ctxClosed"

\* C29: a batch sent to the engine holds no transport request whose
\* (client, nonce) was sent in an earlier batch, and none twice; what was
\* sent stays in the pool.
C29_NoReproposal ==
    /\ [](handed \subseteq pool)
    /\ [][(serve = "send" /\ serve' = "loop") =>
            /\ TransportPairs(requests) \cap handed = {}
            /\ Cardinality(TransportPairs(requests))
                 = Cardinality({i \in DOMAIN requests : requests[i].Type = TransportType})
       ]_vars

\* the mempool selected a message that had been sent to the engine already,
\* and the batch built from it is empty
C29_Witness ==
    /\ serve = "send"
    /\ last.op = "requestPull"
    /\ last.selected # <<>>
    /\ Range(last.selected) \subseteq handed
    /\ requests = <<>>

\* a source that holds one validator less than MinValidators keeps the node
\* waiting
C30_Original ==
    [][(startup = "waiting" /\ source' = source
          /\ last'.op = "getMembershipInfo" /\ last'.err # "read"
          /\ Len(source.ValidatorSet) = source.MinValidators - 1) =>
        startup' = "waiting"
    ]_vars

\* C30: the node starts only with a membership that holds its own id and at
\* least MinValidators validators; a reading of a set that is not empty and
\* has fewer than MinValidators validators keeps it waiting, and a reading
\* of a well-formed set of exactly MinValidators validators with its own id
\* lets it start.
C30_StartupFloor ==
    /\ [](startup = "started" =>
            /\ OwnId \in DOMAIN heap[1]
            /\ Cardinality(DOMAIN heap[1]) = Len(lastValidatorSet)
            /\ calls.netStart = 1)
    /\ [][(startup = "waiting" /\ source' = source
          /\ last'.op = "getMembershipInfo" /\ last'.err # "read") =>
            /\ startup' = "started" =>
                 /\ Len(source.ValidatorSet) >= source.MinValidators
                 /\ \E i \in DOMAIN source.ValidatorSet :
                        ValidatorID(source.ValidatorSet[i]) = OwnId
                 /\ lastValidatorSet' = source.ValidatorSet
            /\ (Len(source.ValidatorSet) > 0
                  /\ Len(source.ValidatorSet) < source.MinValidators) =>
                 startup' = "waiting"
            /\ (Len(source.ValidatorSet) = source.MinValidators
                  /\ WellFormed(source.ValidatorSet)
                  /\ \E i \in DOMAIN source.ValidatorSet :
                         ValidatorID(source.ValidatorSet[i]) = OwnId) =>
                 startup' = "started"
       ]_vars

\* the node started with exactly MinValidators validators, more than one
C30_Witness ==
    /\ startup = "started"
    /\ last.op = "getMembershipInfo" /\ last.ok
    /\ Len(lastValidatorSet) = source.MinValidators
    /\ source.ValidatorSet = lastValidatorSet
    /\ source.MinValidators >= 2

\* C31: while the Manager waits for its membership, a reading that ends in
\* ErrMissingOwnIdentityInMembership or ErrMinNumValidatorNotReached leaves it
\* waiting with nothing started, a reading that ends in any other error ends
\* the wait with that error and the transport is never started, the timeout
\* ends the wait with ErrWaitForMembershipTimeout, and a wait that has ended
\* stays ended: waiting, started, aborted and timeout are the only outcomes.
C31_WaitOutcomes ==
    /\ [](/\ startup \in {"waiting", "started", "aborted", "timeout"}
          /\ startup \in {"waiting", "aborted", "timeout"} => calls.netStart = 0
          /\ startup = "aborted" =>
                /\ last.op = "getMembershipInfo"
                /\ last.err \notin {Nil, ErrMissingOwnIdentityInMembership,
                                    ErrMinNumValidatorNotReached}
          /\ startup = "timeout" => last.op = ErrWaitForMembershipTimeout)
    /\ [][/\ startup # "waiting" => startup' = startup
          /\ (startup = "waiting" /\ source' = source
                /\ last'.op = "getMembershipInfo") =>
               /\ last'.err \in {ErrMissingOwnIdentityInMembership,
                                 ErrMinNumValidatorNotReached} =>
                     startup' = "waiting" /\ heap' = heap /\ calls' = calls
               /\ last'.err \in {"read", "empty", "membership"} =>
                     startup' = "aborted"
               /\ last'.err = Nil => startup' = "started"
       ]_vars

\* the wait was aborted by a failure of the membership source
C31_Witness ==
    /\ startup = "aborted"
    /\ last.op = "getMembershipInfo" /\ last.err = "read"
    /\ calls.netStart = 0

\* C32: a call of ApplyTXs on a batch without configuration request, of
\* Snapshot or of Checkpoint, whatever its outcome, leaves the vote table,
\* the membership table and every membership the table refers to as they
\* were, so a vote counted before the first block is still counted, with
\* the same count, after any number of further blocks.
C32_BlocksKeepVotes ==
    [][(FrameApplyTXs \/ SnapshotAny \/ CheckpointAny) =>
        /\ reconfigurationVotes' = reconfigurationVotes
        /\ memberships' = memberships
        /\ heap' = heap
        /\ currentEpoch' = currentEpoch
    ]_vars

\* a vote was counted at the first block; the chain has grown to its bound
\* and a checkpoint was delivered since
C32_Witness ==
    /\ \E set \in ValSetPool : VoteCount(reconfigurationVotes, currentEpoch, Hash(set)) = 1
    /\ HeadHeight = MaxHeight
    /\ last.op = "Checkpoint" /\ last.ok

\* C33: block validation accepts a block only if its header has WinCount 0,
\* Ticket and ElectionProof proofs both set or both empty, no block
\* signature, an aggregate signature, exactly one parent, which is a block
\* of the local chain, the system actor as miner, Timestamp equal to Height,
\* Height greater than the parent's height and ParentWeight equal to the
\* parent's height plus one; a block that breaks one of these rules is
\* rejected.
C33_ValidBlocksOnly ==
    [][(last'.op = "ValidateBlock" /\ last'.ok) =>
        LET h == last'.block
        IN /\ h.ElectionProof.WinCount = 0
           /\ (h.Ticket.VRFProof = NoProof) = (h.ElectionProof.VRFProof = NoProof)
           /\ h.BlockSig = Nil
           /\ h.BLSAggregate # Nil
           /\ Len(h.Parents) = 1
           /\ h.Miner = SystemActorAddr
           /\ h.Timestamp = h.Height
           /\ \E i \in DOMAIN chain :
                 /\ h.Parents = <<BlockCid(chain[i])>>
                 /\ h.Height > chain[i].Height
                 /\ h.ParentWeight = chain[i].Height + 1
    ]_vars

\* a block with a checkpoint, two heights above its parent, was accepted
C33_Witness ==
    /\ last.op = "ValidateBlock" /\ last.ok
    /\ last.block.Ticket.VRFProof # NoProof
    /\ last.block.Height = HeadHeight + 2
    /\ last.block.Parents = <<BlockCid(ChainHead)>>
    /\ HeadHeight >= 1

\* C34: the batch of a request pull holds no ConfigurationRequest whose
\* configuration ApplyTXs has already executed, that is, written to the
\* pending membership slot.
C34_AppliedNotHandedAgain ==
    [][(serve = "pull" /\ serve' = "send") =>
        \A i \in DOMAIN requests' :
            requests'[i].Type = ReconfigurationType =>
                ~(/\ <<currentEpoch, requests'[i].ClientId>> \in voted
                  /\ PendingContent = MembersOf(UnmarshalCBOR(requests'[i].Data)))
    ]_vars

\* C35: a call of Snapshot returns a checkpoint only when the chain head is
\* at the checkpoint's Height-1 or above, and then every CID the checkpoint
\* lists is the CID of a block of the local chain; when the head is below
\* Height-1 the call returns an error and no checkpoint.
C35_SnapshotWaitsForHead ==
    [][last'.op = "Snapshot" =>
        LET nextHeight == prevCheckpoint.Height
                            + GetCheckpointPeriod(memberships, heap, currentEpoch)
        IN /\ last'.ok =>
                /\ HeadHeight >= nextHeight - 1
                /\ snapshot' # <<>>
                /\ CheckpointFromBytes(snapshot'[1]).Height = nextHeight
                /\ \A c \in Range(CheckpointFromBytes(snapshot'[1]).BlockCids) :
                      \E h \in 0..HeadHeight : c = BlockCid(chain[h + 1])
           /\ HeadHeight < nextHeight - 1 => ~last'.ok /\ snapshot' = snapshot
    ]_vars

\* Snapshot returned a checkpoint with the head exactly at Height-1, after
\* an earlier call had failed below it
C35_Witness ==
    /\ last.op = "Snapshot" /\ last.ok
    /\ HeadHeight = LastSnapshot.Height - 1
    /\ HeadHeight >= 1
    /\ Len(LastSnapshot.BlockCids) >= 1

\* C36: a call of ApplyTXs that returns an error leaves the vote table, the
\* membership table and the memberships it refers to as they were before
\* the call, and appends no block.
C36_FailedApplyChangesNothing ==
    [][(last'.op = "ApplyTXs" /\ ~last'.ok) =>
        /\ reconfigurationVotes' = reconfigurationVotes
        /\ DOMAIN memberships' = DOMAIN memberships
        /\ \A e \in DOMAIN memberships :
              MembershipAt(memberships', heap', e) = MembershipAt(memberships, heap, e)
        /\ chain' = chain
    ]_vars

\* C37: every vote counted in the current epoch comes from a request whose
\* client id is a member of the current epoch's membership.
C37_OnlyMembersVote ==
    \A v \in voted :
        v[1] = currentEpoch =>
            v[2] \in DOMAIN MembershipAt(memberships, heap, currentEpoch)

\* C38: votes count in the epoch they were applied in only. When the epoch
\* changes no set has a vote in the new epoch; a call of ApplyTXs changes
\* the vote counts of the current epoch alone; and the pending membership is
\* written for a set only when the votes counted for it in the current
\* epoch are a weak quorum of the current membership.
C38_VotesPerEpoch ==
    [][/\ currentEpoch' # currentEpoch =>
             \A set \in ValSetPool :
                 VoteCount(reconfigurationVotes', currentEpoch', Hash(set)) = 0
       /\ \A e \in DOMAIN reconfigurationVotes :
             e # currentEpoch =>
                 /\ e \in DOMAIN reconfigurationVotes'
                 /\ reconfigurationVotes'[e] = reconfigurationVotes[e]
       /\ (last'.op = "ApplyTXs" /\ PendingContentAfter # PendingContent) =>
             \E set \in ValSetPool :
                 /\ PendingContentAfter = MembersOf(set)
                 /\ VotesAfter(set) > VotesBefore(set)
                 /\ VotesAfter(set) >= weakQuorum(MembershipLen(memberships, heap,
                                                                currentEpoch))
    ]_vars

\* a set with one vote in epoch 0 has one vote in epoch 1, short of the
\* quorum of four, and the pending membership is not that set
C38_Witness ==
    /\ currentEpoch = 1
    /\ last.op = "ApplyTXs"
    /\ MembershipLen(memberships, heap, currentEpoch) = 4
    /\ VoteCount(reconfigurationVotes, 0, Hash(VS5)) = 1
    /\ VoteCount(reconfigurationVotes, 1, Hash(VS5)) = 1
    /\ PendingContent # MembersOf(VS5)

\* C39: when RestoreState returns, no set has a vote in the epoch the state
\* was restored to, so every vote that counts toward a quorum in that epoch
\* is applied after the restore.
C39_RestoreDropsVotes ==
    [][last'.op = "RestoreState" =>
        \A set \in ValSetPool :
            VoteCount(reconfigurationVotes', currentEpoch', Hash(set)) = 0
    ]_vars

\* C40: whenever Checkpoint or RestoreState has returned, prevCheckpoint is
\* the {Height, CID} of the checkpoint a StateManager constructed over the
\* datastore would start from, and the snapshot stored as the latest one is
\* indexed by that CID.
C40_PrevIsLatest ==
    (last.op \in {"Checkpoint", "RestoreState"} /\ ~blocked) =>
        LET ch == firstEpochCheckpoint(ds, GenesisBlock)
        IN /\ prevCheckpoint = [Height |-> ch.Height, Cid |-> CheckpointCid(ch)]
           /\ ds.latest # <<>> => <<CheckpointCid(ch), ds.latest[1]>> \in ds.byCid

====
